---- MODULE Spec2Model ----
(***************************************************************************)
(* A model of the C++ source indexing engine of UnrealProjectAnalyzer:     *)
(* the parse/extraction cache, class lookup and the hierarchy builder of   *)
(* CppAnalyzer, the scope resolver of Config, search_code, the specifier   *)
(* splitter of the annotation detector and the reference aggregator.       *)
(*                                                                         *)
(* Strings the code inspects character by character (class names, query    *)
(* text, specifier lists, file names) are sequences of one-character       *)
(* strings; paths are sequences of path components.                        *)
(***************************************************************************)
EXTENDS Integers, Sequences, FiniteSets, TLC

VARIABLES
    ast_cache,       \* CppAnalyzer._ast_cache: file path -> syntax tree
    class_cache,     \* CppAnalyzer._class_cache: class name -> ClassInfo
    cache_queue,     \* CppAnalyzer._cache_queue: keys in insertion order
    unreal_path,     \* CppAnalyzer._unreal_path (legacy root) or NoPath
    custom_path,     \* CppAnalyzer._custom_path (legacy root) or NoPath
    source_configs,  \* Config._source_configs: sequence of SourceConfig
    cpp_source_paths, \* Config.cpp_source_paths: the legacy list of root paths
    default_scope,   \* Config.default_scope
    cache_max_size,  \* Config.cache_max_size (ANALYZER_CACHE_MAX_SIZE)
    call,            \* the entry point called last, with its arguments
    ret,             \* what that call returned (or the exception it raised)
    order,           \* history: the surviving tree-cache keys, oldest insertion first
    access,          \* history: the surviving tree-cache keys, least recently used first
    evicted,         \* history: what the last evicting insertion removed
    reading,         \* per query in flight: the file it is reading (it missed
                     \* the tree cache and has not inserted yet), or NoPath
    frames,          \* the find_class_hierarchy calls in flight, outermost
                     \* first: each with its class, the superclasses it has
                     \* still to visit and the child hierarchies it has built
    client,          \* UEPluginClient.get_with_async: where the call in flight
                     \* stands, its local variables, and the history of its
                     \* requests; NoRequest when none is in flight
    scan             \* history: what the loops of the last call's search did (the
                     \* files read, the matches collected before sorting and
                     \* filtering, whether the cap stopped them), or NoScan

vars == <<ast_cache, class_cache, cache_queue, unreal_path, custom_path,
          source_configs, cpp_source_paths, default_scope, cache_max_size,
          call, ret, order, access, evicted, reading, frames, client, scan>>

cacheVars == <<ast_cache, class_cache, cache_queue>>
legacyVars == <<unreal_path, custom_path>>
configVars == <<source_configs, cpp_source_paths, default_scope, cache_max_size>>
historyVars == <<order, access, evicted>>

None == "None"

\* an absent path (None, or the empty string)
NoPath == <<>>

\* history: no insertion has evicted a key yet
\* the last call was no search, or a search that returned before its loops
NoScan == [files |-> <<>>, collected |-> 0, capped |-> FALSE]

\* the queue length up to which the interleaved parses are followed
MaxQueue == 4

\* no get_with_async call has been made
NoRequest == [pc |-> "idle"]

\* the interpreter's recursion limit, in calls of find_class_hierarchy: more
\* than the longest chain of superclasses that ends
RecursionLimit == 6

\* the queries a host may interleave
QueryIds == {1, 2}

\* no query is between its cache check and its insert
Idle == [k \in QueryIds |-> <<>>]

NoEviction == [key |-> NoPath, oldest |-> NoPath, lru |-> NoPath]

(***************************************************************************)
(* Sequence helpers.                                                       *)
(***************************************************************************)
Range(s) == {s[i] : i \in 1..Len(s)}

IsPrefix(p, s) == Len(p) <= Len(s) /\ SubSeq(s, 1, Len(p)) = p

EndsWith(s, suffix) ==
    Len(suffix) <= Len(s) /\ SubSeq(s, Len(s) - Len(suffix) + 1, Len(s)) = suffix

\* Sequences over S of length at most n.
SeqsUpTo(S, n) == UNION {[1..k -> S] : k \in 0..n}

(***************************************************************************)
(* Dictionaries (Python dict): functions with a finite domain.             *)
(***************************************************************************)
EmptyDict == [k \in {} |-> None]

Put(d, key, value) == [k \in DOMAIN d \cup {key} |-> IF k = key THEN value ELSE d[k]]

\* dict.pop(key, None)
Pop(d, key) == [k \in DOMAIN d \ {key} |-> d[k]]

(***************************************************************************)
(* Class names, as the characters the interface heuristic inspects.        *)
(***************************************************************************)
AH == <<"A", "H">>      \* a project actor class
AP == <<"A", "P">>
AA == <<"A", "A">>
UO == <<"U", "O">>
UX == <<"U", "X">>
UY == <<"U", "Y">>
UZ == <<"U", "Z">>
ZZ == <<"Z", "Z">>      \* defined in no file
UC == <<"U", "C">>      \* derives from UD, which derives from UC
UD == <<"U", "D">>
UT == <<"U", "T">>      \* the classes of K/w.h: the second has a malformed member
UW == <<"U", "W">>
UV == <<"U", "V">>
FS == <<"F", "S">>      \* a struct with a body
FD == <<"F", "D">>      \* declared forward only, defined in no file
ID == <<"I", "D">>      \* capital I, then an upper-case letter
It == <<"I", "t">>      \* capital I, then a lower-case letter
Interface == <<"I", "n", "t", "e", "r", "f", "a", "c", "e">>
XInterface == <<"X">> \o Interface

UpperCase == {"A", "D", "H", "I", "O", "P", "U", "X", "Y", "Z"}

(***************************************************************************)
(* The file system: two source trees, P (the project's Source) and E (the  *)
(* engine's Source), and the syntax tree of each file: its class nodes,    *)
(* in document order, each with its name, whether it has a body, and the   *)
(* type identifiers of its base clause.                                    *)
(***************************************************************************)
P == <<"P">>
E == <<"E">>
\* a directory inside the engine's tree
EG == <<"E", "g">>
\* a directory that does not exist
NoDir == <<"N">>
\* a third tree, a codebase in which two classes name each other as base
K == <<"K">>

Node(name, body, bases) ==
    [type |-> "class_specifier", class_name |-> name, class_body |-> body,
     bases |-> bases, members |-> <<>>]

\* a field_declaration child of a class body: its name, and whether the node
\* has a shape on which _extract_property_info raises
Field(name, raises) == [type |-> "field_declaration", name |-> name, raises |-> raises]

\* a class_specifier node with a body and these children
ClassWithMembers(name, bases, children) ==
    [type |-> "class_specifier", class_name |-> name, class_body |-> TRUE,
     bases |-> bases, members |-> children]

\* a struct_specifier node of the syntax tree: its name, whether it has a body,
\* its base types
StructNode(name, body, bases) ==
    [type |-> "struct_specifier", class_name |-> name, class_body |-> body,
     bases |-> bases, members |-> <<>>]

\* rglob's listing, in the order the walk visits the files
Listing ==
    << <<"P", "h.h">>, <<"P", "p.h">>, <<"E", "y.cpp">>, <<"E", "a.h">>,
       <<"E", "g", "m.h">>, <<"K", "u.h">>, <<"K", "k.h">>,
       <<"K", "w.h">> >>

\* the files whose read_text() raises (no permission to read)
Unreadable == { <<"K", "u.h">> }

\* the files whose suffix is .cpp; the others are headers
CppFiles == { <<"E", "y.cpp">> }

ExistingFiles == Range(Listing)

MissingFile == <<"P", "gone.h">>

\* the paths the parse requests name: the files of P and E, and a missing one
FilePaths == {f \in ExistingFiles : ~IsPrefix(K, f)} \cup {MissingFile}

\* Parser.parse(bytes): deterministic in the file's content
Parse(file_path) ==
    CASE file_path = <<"P", "h.h">> ->
            << Node(AH, TRUE, <<AP, ID>>), Node(AP, TRUE, <<AA>>) >>
      [] file_path = <<"P", "p.h">> ->
            << Node(AA, FALSE, <<>>), Node(UO, FALSE, <<>>),
               StructNode(FS, TRUE, <<>>), StructNode(FD, FALSE, <<>>) >>
      [] file_path = <<"E", "a.h">> ->
            << Node(AA, TRUE, <<UO, XInterface>>), Node(UO, TRUE, <<>>) >>
      [] file_path = <<"E", "y.cpp">> ->
            << Node(UX, TRUE, <<UY, It>>), Node(UY, TRUE, <<UZ>>), Node(UZ, TRUE, <<ZZ>>) >>
      [] file_path = <<"E", "g", "m.h">> ->
            << Node(UO, FALSE, <<>>), Node(FD, FALSE, <<>>) >>
      [] file_path = <<"K", "k.h">> ->
            << Node(UC, TRUE, <<UD>>), Node(UD, TRUE, <<UC, UX>>) >>
      [] file_path = <<"K", "w.h">> ->
            << ClassWithMembers(UT, <<>>, <<Field("t", FALSE)>>),
               ClassWithMembers(UW, <<>>, <<Field("a", FALSE), Field("m", TRUE),
                                           Field("z", FALSE)>>),
               ClassWithMembers(UV, <<>>, <<Field("v", FALSE)>>) >>
      [] file_path \in Unreadable -> <<>>

\* file_path.read_text().split("\n"): the lines of each file, as characters
Lines(file_path) ==
    CASE file_path = <<"P", "h.h">> ->
            << <<"b">>, <<"a", " ", "b">>, <<" ", "/", "/", "a">> >>
      [] file_path = <<"P", "p.h">> ->
            << <<"A">> >>
      [] file_path = <<"E", "a.h">> ->
            << <<"a">>, <<"b", "A", "b">> >>
      [] file_path = <<"E", "y.cpp">> ->
            << <<"b">> >>
      [] file_path = <<"E", "g", "m.h">> ->
            << <<"a", "b">> >>
      [] file_path = <<"K", "k.h">> ->
            << <<"b">> >>
      [] file_path = <<"K", "w.h">> ->
            << <<"a">> >>
      [] file_path \in Unreadable -> <<>>

(***************************************************************************)
(* Config: source roots with scope metadata.                               *)
(***************************************************************************)
PROJECT_SOURCE == "project_source"
PROJECT_PLUGIN == "project_plugin"
ENGINE_SOURCE == "engine_source"
ENGINE_PLUGIN == "engine_plugin"
SourceTypes == {PROJECT_SOURCE, PROJECT_PLUGIN, ENGINE_SOURCE, ENGINE_PLUGIN}

SearchScopes == {"project", "engine", "plugin", "all"}

\* Path.resolve(): "." components drop out of the path
RECURSIVE resolve(_)
resolve(path) ==
    IF path = <<>> THEN <<>>
    ELSE IF Head(path) = "." THEN resolve(Tail(path))
         ELSE <<Head(path)>> \o resolve(Tail(path))

\* SourceConfig(path, source_type, label); __post_init__ fills an empty label
SourceConfig(path, source_type, label) ==
    [path |-> path, source_type |-> source_type,
     label |-> IF label = "" THEN source_type ELSE label]

RECURSIVE PathsOfType(_, _)
\* [cfg.path for cfg in configs if cfg.source_type in types]
PathsOfType(configs, types) ==
    IF configs = <<>> THEN <<>>
    ELSE IF Head(configs).source_type \in types
         THEN <<Head(configs).path>> \o PathsOfType(Tail(configs), types)
         ELSE PathsOfType(Tail(configs), types)

\* a plausible slip: the engine scope forgets the engine's plugins
get_source_paths_engine_source_only(configs, dflt, scope) ==
    LET s == IF scope \in SearchScopes THEN scope ELSE dflt
    IN CASE s = "all" -> PathsOfType(configs, SourceTypes)
         [] s = "plugin" -> PathsOfType(configs, {PROJECT_PLUGIN, ENGINE_PLUGIN})
         [] s = "engine" -> PathsOfType(configs, {ENGINE_SOURCE})
         [] OTHER -> PathsOfType(configs, {PROJECT_SOURCE, PROJECT_PLUGIN})

\* Config.get_source_paths(scope): None and unknown strings resolve to default_scope
get_source_paths(configs, dflt, scope) ==
    LET s == IF scope \in SearchScopes THEN scope ELSE dflt
    IN CASE s = "all" -> PathsOfType(configs, SourceTypes)
         [] s = "plugin" -> PathsOfType(configs, {PROJECT_PLUGIN, ENGINE_PLUGIN})
         [] s = "engine" -> PathsOfType(configs, {ENGINE_SOURCE, ENGINE_PLUGIN})
         [] OTHER -> PathsOfType(configs, {PROJECT_SOURCE, PROJECT_PLUGIN})

get_project_paths(configs, dflt) == get_source_paths(configs, dflt, "project")
get_engine_paths(configs, dflt) == get_source_paths(configs, dflt, "engine")
get_plugin_paths(configs, dflt) == get_source_paths(configs, dflt, "plugin")

(***************************************************************************)
(* CppAnalyzer: the parse/extraction cache.                                *)
(***************************************************************************)
\* CppAnalyzer._max_cache_size, which the code sets to 1000
_max_cache_size == 2

\* a plausible slip: evict the newest key instead of the oldest
_manage_cache_newest(cache, queue, key, value) ==
    LET pop == Cardinality(DOMAIN cache) >= _max_cache_size /\ queue # <<>>
        cache1 == IF pop THEN Pop(cache, queue[Len(queue)]) ELSE cache
        queue1 == IF pop THEN SubSeq(queue, 1, Len(queue) - 1) ELSE queue
    IN [cache |-> Put(cache1, key, value), queue |-> Append(queue1, key)]

\* a plausible slip: the evicted key stays in the queue
_manage_cache_queue_kept(cache, queue, key, value) ==
    LET pop == Cardinality(DOMAIN cache) >= _max_cache_size /\ queue # <<>>
        cache1 == IF pop THEN Pop(cache, Head(queue)) ELSE cache
    IN [cache |-> Put(cache1, key, value), queue |-> Append(queue, key)]

\* CppAnalyzer._manage_cache(cache, key, value), on the shared queue
_manage_cache(cache, queue, key, value) ==
    LET pop == Cardinality(DOMAIN cache) >= _max_cache_size /\ queue # <<>>
        cache1 == IF pop THEN Pop(cache, Head(queue)) ELSE cache
        queue1 == IF pop THEN Tail(queue) ELSE queue
    IN [cache |-> Put(cache1, key, value), queue |-> Append(queue1, key)]

\* a plausible slip: any leading capital I marks an interface
_is_interface_name_leading_I(name) ==
    /\ name # <<>>
    /\ \/ name[1] = "I"
       \/ EndsWith(name, Interface)

\* CppAnalyzer._is_interface_name(name)
_is_interface_name(name) ==
    /\ name # <<>>
    /\ \/ Len(name) >= 2 /\ name[1] = "I" /\ name[2] \in UpperCase
       \/ EndsWith(name, Interface)

RECURSIVE Superclasses(_)
\* the loop of _extract_class_info that fills class_info.superclasses
Superclasses(base_types) ==
    IF base_types = <<>> THEN <<>>
    ELSE IF _is_interface_name(Head(base_types))
         THEN Superclasses(Tail(base_types))
         ELSE <<Head(base_types)>> \o Superclasses(Tail(base_types))

RECURSIVE Interfaces(_)
\* the loop of _extract_class_info that fills class_info.interfaces
Interfaces(base_types) ==
    IF base_types = <<>> THEN <<>>
    ELSE IF _is_interface_name(Head(base_types))
         THEN <<Head(base_types)>> \o Interfaces(Tail(base_types))
         ELSE Interfaces(Tail(base_types))

\* lines 398-426: the loop over the children of the class body; the names of
\* the properties it appended
Properties(children) ==
    [i \in 1..Len(children) |-> children[i].name]

\* the extraction of one of the children raises; nothing between lines 398 and
\* 431 catches it, and _extract_class_info raises in turn
ExtractionRaises(node) ==
    \E i \in 1..Len(node.members) : node.members[i].raises

\* CppAnalyzer._extract_class_info(node, file_path, class_name), when it returns
_extract_class_info(node, file_path, class_name) ==
    [name |-> class_name,
     file |-> file_path,
     superclasses |-> Superclasses(node.bases),
     interfaces |-> Interfaces(node.bases),
     properties |-> Properties(node.members)]

\* b.startswith("I"), the test of the unreal_analyzer copy of the analyzer
startswith_I(b) == b # <<>> /\ b[1] = "I"

\* _extract_class_info of the unreal_analyzer copy: its two comprehensions
_extract_class_info_unreal_analyzer(node, file_path, class_name) ==
    [name |-> class_name,
     file |-> file_path,
     superclasses |-> SelectSeq(node.bases, LAMBDA b : ~startswith_I(b)),
     interfaces |-> SelectSeq(node.bases, LAMBDA b : startswith_I(b)),
     properties |-> Properties(node.members)]

RECURSIVE _extract_classes_from_tree(_, _, _)
\* CppAnalyzer._extract_classes_from_tree(tree, file_path): the class cache after
\* it; the one query run is "CLASS", whose pattern matches class_specifier nodes.
\* An exception of _extract_class_info (line 357) leaves the loop and the method
_extract_classes_from_tree(cls, tree, file_path) ==
    IF tree = <<>> THEN cls
    ELSE LET node == Head(tree)
         IN IF node.type # "class_specifier" \/ ~node.class_body
            THEN _extract_classes_from_tree(cls, Tail(tree), file_path)
            ELSE IF ExtractionRaises(node) THEN cls
            ELSE _extract_classes_from_tree(
                     Put(cls, node.class_name,
                         _extract_class_info(node, file_path, node.class_name)),
                     Tail(tree), file_path)

\* _extract_classes_from_tree raises: the extraction of one of the classes does
TreeRaises(tree) ==
    \E i \in 1..Len(tree) :
        /\ tree[i].type = "class_specifier"
        /\ tree[i].class_body
        /\ ExtractionRaises(tree[i])

(***************************************************************************)
(* The analyzer's mutable state, threaded through the calls of one entry   *)
(* point: the two caches, the queue, and the history of the tree cache.    *)
(***************************************************************************)
Analyzer ==
    [ast |-> ast_cache, cls |-> class_cache, q |-> cache_queue,
     order |-> order, access |-> access, evicted |-> evicted]

SetAnalyzer(st) ==
    /\ ast_cache' = st.ast
    /\ class_cache' = st.cls
    /\ cache_queue' = st.q
    /\ order' = st.order
    /\ access' = st.access
    /\ evicted' = st.evicted

\* the sequence s without key, then key
MoveToEnd(s, key) == Append(SelectSeq(s, LAMBDA k : k # key), key)

\* CppAnalyzer._parse_file from the file read on (lines 312-320): read, parse,
\* insert into the tree cache, extract the classes
_parse_file_read(st, file_path) ==
    LET tree == Parse(file_path)
        m == _manage_cache(st.ast, st.q, file_path, tree)
        gone == DOMAIN st.ast \ DOMAIN m.cache
        kept(k) == k \notin gone
    IN [st |-> [ast |-> m.cache,
                q |-> m.queue,
                cls |-> _extract_classes_from_tree(st.cls, tree, file_path),
                order |-> MoveToEnd(SelectSeq(st.order, kept), file_path),
                access |-> MoveToEnd(SelectSeq(st.access, kept), file_path),
                evicted |-> IF gone = {} THEN st.evicted
                            ELSE [key |-> CHOOSE k \in gone : TRUE,
                                  oldest |-> Head(st.order),
                                  lru |-> Head(st.access)]],
        raised |-> TreeRaises(tree)]

\* CppAnalyzer._parse_file(file_path): the state after it, and whether it raised
_parse_file(st, file_path) ==
    IF file_path \in DOMAIN st.ast
    THEN [st |-> [st EXCEPT !.access = MoveToEnd(st.access, file_path)],
          raised |-> FALSE]
    ELSE IF file_path \notin ExistingFiles \/ file_path \in Unreadable
    THEN [st |-> st, raised |-> TRUE]
    ELSE _parse_file_read(st, file_path)

(***************************************************************************)
(* CppAnalyzer: class lookup and the hierarchy builder.                    *)
(***************************************************************************)
\* Path(base).exists()
Exists(path) == \E f \in ExistingFiles : IsPrefix(resolve(path), f)

\* base.rglob("*.h") or base.rglob("*.cpp"), in listing order
rglob(base, cpp) ==
    SelectSeq(Listing, LAMBDA f : IsPrefix(base, f) /\ f # base /\ ((f \in CppFiles) <=> cpp))

\* a plausible slip: with nothing configured, the project directory is searched
_get_search_paths_or_project(scope, source_path) ==
    IF source_path # NoPath THEN <<source_path>>
    ELSE LET paths == get_source_paths(source_configs, default_scope, scope)
         IN IF paths # <<>> THEN paths
            ELSE IF custom_path = NoPath /\ unreal_path = NoPath THEN <<P>>
            ELSE (IF custom_path # NoPath THEN <<custom_path>> ELSE <<>>)
                 \o (IF unreal_path # NoPath THEN <<unreal_path>> ELSE <<>>)

\* CppAnalyzer._get_search_paths(scope, source_path)
_get_search_paths(scope, source_path) ==
    IF source_path # NoPath THEN <<source_path>>
    ELSE LET paths == get_source_paths(source_configs, default_scope, scope)
         IN IF paths # <<>> THEN paths
            ELSE (IF custom_path # NoPath THEN <<custom_path>> ELSE <<>>)
                 \o (IF unreal_path # NoPath THEN <<unreal_path>> ELSE <<>>)

RECURSIVE WalkOrder(_)
\* the files analyze_class visits: per root, the headers, then the sources
WalkOrder(search_paths) ==
    IF search_paths = <<>> THEN <<>>
    ELSE LET base == Head(search_paths)
         IN (IF Exists(base) THEN rglob(base, FALSE) \o rglob(base, TRUE) ELSE <<>>)
            \o WalkOrder(Tail(search_paths))

RECURSIVE WalkFor_until_error(_, _, _)
\* a plausible slip: the first file that cannot be parsed ends the search
WalkFor_until_error(st, files, class_name) ==
    IF files = <<>> THEN [st |-> st, found |-> FALSE]
    ELSE LET r == _parse_file(st, Head(files))
         IN IF r.raised THEN [st |-> r.st, found |-> FALSE]
            ELSE IF class_name \in DOMAIN r.st.cls
            THEN [st |-> r.st, found |-> TRUE]
            ELSE WalkFor_until_error(r.st, Tail(files), class_name)

RECURSIVE WalkFor(_, _, _)
\* the search loop of analyze_class: parse file after file until the class is cached
WalkFor(st, files, class_name) ==
    IF files = <<>> THEN [st |-> st, found |-> FALSE]
    ELSE LET r == _parse_file(st, Head(files))
         IN IF ~r.raised /\ class_name \in DOMAIN r.st.cls
            THEN [st |-> r.st, found |-> TRUE]
            ELSE WalkFor(r.st, Tail(files), class_name)

\* CppAnalyzer.analyze_class(class_name, source_path, scope)
analyze_class(st, class_name, source_path, scope) ==
    IF class_name \in DOMAIN st.cls
    THEN [st |-> st, raised |-> None, value |-> st.cls[class_name]]
    ELSE LET search_paths == _get_search_paths(scope, source_path)
         IN IF search_paths = <<>>
            THEN [st |-> st, raised |-> "ValueError: No C++ source paths configured",
                  value |-> None]
            ELSE LET w == WalkFor(st, WalkOrder(search_paths), class_name)
                 IN IF w.found
                    THEN [st |-> w.st, raised |-> None, value |-> w.st.cls[class_name]]
                    ELSE [st |-> w.st, raised |-> "ValueError: Class not found",
                          value |-> None]

\* ClassHierarchy(...).to_dict()
ClassHierarchy(class_name, superclasses, interfaces) ==
    [class |-> class_name, superclasses |-> superclasses, interfaces |-> interfaces]

RECURSIVE NestedSuperclasses(_)
\* lines 800-806: of each nested superclass, the name and the interfaces are kept
NestedSuperclasses(dicts) ==
    IF dicts = <<>> THEN <<>>
    ELSE <<ClassHierarchy(Head(dicts).class, <<>>, Head(dicts).interfaces)>>
         \o NestedSuperclasses(Tail(dicts))

\* lines 794-807: the copy of a returned sub-hierarchy that the parent keeps
CopyOfSuper(d) ==
    ClassHierarchy(d.class, NestedSuperclasses(d.superclasses), d.interfaces)

RECURSIVE find_class_hierarchy(_, _, _, _)
RECURSIVE SuperHierarchies(_, _, _, _)

\* the loop over class_info["superclasses"]: the state after it and the child nodes
SuperHierarchies(st, superclasses, include_interfaces, scope) ==
    IF superclasses = <<>> THEN [st |-> st, nodes |-> <<>>]
    ELSE LET h == find_class_hierarchy(st, Head(superclasses), include_interfaces, scope)
             rest == SuperHierarchies(h.st, Tail(superclasses), include_interfaces, scope)
         IN [st |-> rest.st, nodes |-> <<CopyOfSuper(h.node)>> \o rest.nodes]

\* CppAnalyzer.find_class_hierarchy(class_name, include_interfaces, scope)
find_class_hierarchy(st, class_name, include_interfaces, scope) ==
    LET a == analyze_class(st, class_name, NoPath, scope)
    IN IF a.raised # None
       THEN [st |-> a.st, node |-> ClassHierarchy(class_name, <<>>, <<>>)]
       ELSE LET sup == SuperHierarchies(a.st, a.value.superclasses,
                                        include_interfaces, scope)
            IN [st |-> sup.st,
                node |-> ClassHierarchy(class_name, sup.nodes,
                             IF include_interfaces THEN a.value.interfaces ELSE <<>>)]

(***************************************************************************)
(* Text: what search_code does with the query and with each line.          *)
(***************************************************************************)
Whitespace == {" "}

\* str.lower(), on the characters the texts hold
lower(s) == [i \in 1..Len(s) |-> IF s[i] = "A" THEN "a" ELSE s[i]]

RECURSIVE lstrip(_)
lstrip(s) ==
    IF s # <<>> /\ Head(s) \in Whitespace THEN lstrip(Tail(s)) ELSE s

RECURSIVE rstrip(_)
rstrip(s) ==
    IF s # <<>> /\ s[Len(s)] \in Whitespace THEN rstrip(SubSeq(s, 1, Len(s) - 1)) ELSE s

\* str.strip()
strip(s) == rstrip(lstrip(s))

\* sub in s
Contains(s, sub) ==
    \E i \in 0..(Len(s) - Len(sub)) : SubSeq(s, i + 1, i + Len(sub)) = sub

\* s.find(sub): the first index (from 0) at which sub occurs in s, or -1
find(s, sub) ==
    IF Contains(s, sub)
    THEN CHOOSE i \in 0..(Len(s) - Len(sub)) :
             /\ SubSeq(s, i + 1, i + Len(sub)) = sub
             /\ \A j \in 0..(i - 1) : SubSeq(s, j + 1, j + Len(sub)) # sub
    ELSE -1

RECURSIVE SplitWords(_, _)
\* [t for t in re.split(r"\s+", s) if t]; word is the token being read
SplitWords(s, word) ==
    IF s = <<>> THEN (IF word = <<>> THEN <<>> ELSE <<word>>)
    ELSE IF Head(s) \in Whitespace
         THEN (IF word = <<>> THEN <<>> ELSE <<word>>) \o SplitWords(Tail(s), <<>>)
         ELSE SplitWords(Tail(s), Append(word, Head(s)))

\* set(r"\.^$*+?{}[]|()")
regex_meta == {"\\", ".", "^", "$", "*", "+", "?", "{", "}", "[", "]", "|", "(", ")"}

_looks_like_regex(q) == \E i \in 1..Len(q) : q[i] \in regex_meta

\* a plausible slip: the query is escaped before it is compiled, so none is invalid
InvalidRegex_escaped(query) == FALSE

\* re.compile(query, re.IGNORECASE) raises re.error; of the queries' characters
\* only the parenthesis is a metacharacter, and alone it is an unterminated group
InvalidRegex(query) == \E i \in 1..Len(query) : query[i] = "("

\* the characters \w matches, of those the texts hold
WordChars == {"a", "b", "A", "_"}

\* rf"\b": the word-boundary assertion
WordBoundary == <<"\\", "b">>

RECURSIVE re_escape(_)
\* re.escape(s): a backslash before every character that is not a word character
re_escape(s) ==
    IF s = <<>> THEN <<>>
    ELSE (IF Head(s) \in WordChars THEN <<Head(s)>> ELSE <<"\\", Head(s)>>)
         \o re_escape(Tail(s))

\* \bword\b found in line: an occurrence with no word character on either side
WordSearch(word, line) ==
    \E i \in 0..(Len(line) - Len(word)) :
        /\ SubSeq(lower(line), i + 1, i + Len(word)) = lower(word)
        /\ i = 0 \/ line[i] \notin WordChars
        /\ i + Len(word) = Len(line) \/ line[i + Len(word) + 1] \notin WordChars

\* regex.search(line), ignoring case, for a pattern of literal characters,
\* bare or between two word-boundary assertions
regex_search(query, line) ==
    IF Len(query) > 4 /\ IsPrefix(WordBoundary, query) /\ EndsWith(query, WordBoundary)
    THEN WordSearch(SubSeq(query, 3, Len(query) - 2), line)
    ELSE Contains(lower(line), lower(query))

\* [t for t in tokens if t.lower() in lower_line]
RECURSIVE MatchedTokens(_, _)
MatchedTokens(tokens, lower_line) ==
    IF tokens = <<>> THEN <<>>
    ELSE IF Contains(lower_line, lower(Head(tokens)))
         THEN <<Head(tokens)>> \o MatchedTokens(Tail(tokens), lower_line)
         ELSE MatchedTokens(Tail(tokens), lower_line)

\* stripped.startswith("//") or stripped.startswith("/*")
IsCommentLine(line) ==
    LET stripped == strip(line)
    IN IsPrefix(<<"/", "/">>, stripped) \/ IsPrefix(<<"/", "*">>, stripped)

(***************************************************************************)
(* CppAnalyzer.search_code.  A match is the record the code appends, less  *)
(* its context excerpt; the file pattern is the default, "*.{h,cpp}".      *)
(***************************************************************************)
RECURSIVE SearchLines(_, _, _, _)
\* the loop over the lines of one file, from line i on (q: the resolved query)
SearchLines(results, file_path, i, q) ==
    IF i > Len(Lines(file_path)) \/ Len(results) >= q.max_results THEN results
    ELSE LET line == Lines(file_path)[i]
             lower_line == lower(line)
             matched == MatchedTokens(q.tokens, lower_line)
             col == find(lower_line, lower(Head(matched)))
         IN IF ~q.include_comments /\ IsCommentLine(line)
            THEN SearchLines(results, file_path, i + 1, q)
            ELSE IF q.query_mode_resolved = "regex"
            THEN IF ~regex_search(q.query, line)
                 THEN SearchLines(results, file_path, i + 1, q)
                 ELSE SearchLines(
                          Append(results, [file |-> file_path, line |-> i,
                                           column |-> 1, score |-> 1]),
                          file_path, i + 1, q)
            ELSE IF matched = <<>>
                 THEN SearchLines(results, file_path, i + 1, q)
                 ELSE SearchLines(
                          Append(results, [file |-> file_path, line |-> i,
                                           column |-> IF col >= 0 THEN col + 1 ELSE 1,
                                           matched_terms |-> matched,
                                           score |-> Len(matched)]),
                          file_path, i + 1, q)

RECURSIVE ScanFiles(_, _, _)
\* the loops over the roots, the patterns and the files rglob yields: the matches
\* collected, the files read, and whether an "if len(results) >= max_results:
\* break" was taken (at the head of the file loop, or at the head of the line
\* loop with a line still to read)
ScanFiles(acc, files, q) ==
    IF files = <<>> THEN acc
    ELSE IF Len(acc.results) >= q.max_results THEN [acc EXCEPT !.capped = TRUE]
    ELSE IF Head(files) \in Unreadable THEN ScanFiles(acc, Tail(files), q)
    ELSE LET after == SearchLines(acc.results, Head(files), 1, q)
         IN ScanFiles([results |-> after,
                       files |-> Append(acc.files, Head(files)),
                       capped |-> /\ Len(after) >= q.max_results
                                  /\ after[Len(after)].line < Len(Lines(Head(files)))],
                      Tail(files), q)

\* the matches the loops collect, starting from results
SearchFiles(results, files, q) ==
    ScanFiles([results |-> results, files |-> <<>>, capped |-> FALSE], files, q).results

RECURSIVE InsertByScore(_, _)
\* m placed after the matches whose score is not lower than its own
InsertByScore(sorted, m) ==
    IF sorted = <<>> THEN <<m>>
    ELSE IF Head(sorted).score >= m.score
         THEN <<Head(sorted)>> \o InsertByScore(Tail(sorted), m)
         ELSE <<m>> \o sorted

RECURSIVE SortByScore(_)
\* results.sort(key=score, reverse=True): stable, highest score first
SortByScore(results) ==
    IF results = <<>> THEN <<>>
    ELSE InsertByScore(SortByScore(SubSeq(results, 1, Len(results) - 1)),
                       results[Len(results)])

\* a plausible slip: the safety filter keeps every match
_is_under_any_root_always(file_path, roots) == TRUE

\* _is_under_any_root(file_path, roots), nested in search_code
_is_under_any_root(file_path, roots) ==
    \E i \in 1..Len(roots) : IsPrefix(resolve(roots[i]), resolve(file_path))

\* the scope the safety filter goes by (lines 851-862)
NormScope(scope) ==
    IF scope = None THEN default_scope
    ELSE IF scope \in SearchScopes THEN scope
    ELSE "project"

\* lines 1010-1019: the matches the safety filter keeps
FilterByScope(results, norm_scope) ==
    IF norm_scope = "all" THEN results
    ELSE LET roots == CASE norm_scope = "project" ->
                               get_project_paths(source_configs, default_scope)
                        [] norm_scope = "engine" ->
                               get_engine_paths(source_configs, default_scope)
                        [] norm_scope = "plugin" ->
                               get_plugin_paths(source_configs, default_scope)
         IN SelectSeq(results, LAMBDA m : _is_under_any_root(m.file, roots))

\* str(scope or "project")
ScopeStr(scope) == IF scope = None THEN "project" ELSE scope

\* CppAnalyzer.search_code(query, include_comments, scope, max_results, query_mode):
\* the dictionary it returns (value) and what its loops did (scan)
search_code_run(query, include_comments, scope, max_results, query_mode) ==
    LET search_paths == _get_search_paths(scope, NoPath)
        lowered_query == strip(query)
        query_mode_resolved ==
            IF query_mode = "smart"
            THEN (IF lowered_query = <<>> THEN "tokens"
                  ELSE IF _looks_like_regex(lowered_query) THEN "regex"
                  ELSE "tokens")
            ELSE (IF query_mode = "tokens" THEN "tokens" ELSE "regex")
        tokens == IF query_mode_resolved = "tokens"
                  THEN SplitWords(lowered_query, <<>>) ELSE <<>>
        q == [query |-> query, tokens |-> tokens,
              query_mode_resolved |-> query_mode_resolved,
              include_comments |-> include_comments, max_results |-> max_results]
        scanned == ScanFiles([results |-> <<>>, files |-> <<>>, capped |-> FALSE],
                             WalkOrder(search_paths), q)
        found == scanned.results
        sorted == IF query_mode_resolved = "tokens" THEN SortByScore(found) ELSE found
        results == FilterByScope(sorted, NormScope(scope))
    IN IF search_paths = <<>>
       THEN [value |-> [matches |-> <<>>, count |-> 0, scope |-> ScopeStr(scope),
                        searched_paths |-> <<>>, query_mode |-> query_mode],
             scan |-> NoScan]
       ELSE IF query_mode_resolved = "regex" /\ InvalidRegex(query)
       THEN [value |-> [matches |-> <<>>, count |-> 0, error |-> "Invalid regex",
                        scope |-> ScopeStr(scope), searched_paths |-> search_paths,
                        query_mode |-> query_mode],
             scan |-> NoScan]
       ELSE IF query_mode_resolved = "tokens" /\ tokens = <<>>
       THEN [value |-> [matches |-> <<>>, count |-> 0, scope |-> ScopeStr(scope),
                        searched_paths |-> search_paths, query_mode |-> query_mode],
             scan |-> NoScan]
       ELSE [value |-> [matches |-> results, count |-> Len(results),
                        scope |-> ScopeStr(scope),
                        searched_paths |-> search_paths,
                        truncated |-> (Len(results) >= max_results),
                        query_mode |-> query_mode,
                        query_mode_resolved |-> query_mode_resolved],
             scan |-> [files |-> scanned.files, collected |-> Len(found),
                       capped |-> scanned.capped]]

\* CppAnalyzer.search_code(...): the dictionary it returns
search_code(query, include_comments, scope, max_results, query_mode) ==
    search_code_run(query, include_comments, scope, max_results, query_mode).value

\* CppAnalyzer.find_references(identifier, ref_type, scope): what the search did
find_references_run(identifier, scope) ==
    search_code_run(WordBoundary \o re_escape(identifier) \o WordBoundary,
                    TRUE, scope, 500, "regex")

\* CppAnalyzer.find_references(identifier, ref_type, scope)
find_references(identifier, scope) == find_references_run(identifier, scope).value

\* a plausible slip: the duplicate check compares the path as it was given
add_source_path_unresolved(configs, path, source_type, is_engine, label) ==
    LET path_str == resolve(path)
        type == IF source_type = PROJECT_SOURCE /\ is_engine
                THEN ENGINE_SOURCE ELSE source_type
    IN IF \E i \in 1..Len(configs) : configs[i].path = path
       THEN configs
       ELSE Append(configs,
                   SourceConfig(path_str, type, IF label # "" THEN label ELSE type))

\* Config.add_source_path(path, source_type, is_engine, label): the roots after it
add_source_path(configs, path, source_type, is_engine, label) ==
    LET path_str == resolve(path)
        type == IF source_type = PROJECT_SOURCE /\ is_engine
                THEN ENGINE_SOURCE ELSE source_type
    IN IF \E i \in 1..Len(configs) : configs[i].path = path_str
       THEN configs
       ELSE Append(configs,
                   SourceConfig(path_str, type, IF label # "" THEN label ELSE type))

\* Config.add_source_path: the legacy list cpp_source_paths after it
add_source_path_legacy(configs, paths, path) ==
    LET path_str == resolve(path)
    IN IF \E i \in 1..Len(configs) : configs[i].path = path_str
       THEN paths
       ELSE IF \E i \in 1..Len(paths) : paths[i] = path_str
       THEN paths
       ELSE Append(paths, path_str)

(***************************************************************************)
(* patterns.parse_specifiers: the specifier list of an annotation macro.   *)
(***************************************************************************)
RECURSIVE SplitSpecifiers(_, _, _, _)
\* the loop of parse_specifiers over the characters still to read
SplitSpecifiers(chars, depth, current, result) ==
    IF chars = <<>>
    THEN (IF strip(current) # <<>> THEN Append(result, strip(current)) ELSE result)
    ELSE LET char == Head(chars)
         IN IF char = "("
            THEN SplitSpecifiers(Tail(chars), depth + 1, Append(current, char), result)
            ELSE IF char = ")"
            THEN SplitSpecifiers(Tail(chars), depth - 1, Append(current, char), result)
            ELSE IF char = "," /\ depth = 0
            THEN SplitSpecifiers(Tail(chars), depth, <<>>,
                     IF strip(current) # <<>> THEN Append(result, strip(current))
                     ELSE result)
            ELSE SplitSpecifiers(Tail(chars), depth, Append(current, char), result)

\* parse_specifiers(specifiers_str)
parse_specifiers(specifiers_str) == SplitSpecifiers(specifiers_str, 0, <<>>, <<>>)

(***************************************************************************)
(* patterns.detect_ue_pattern: the flags derived from a match's specifiers. *)
(* A specifier text is a sequence of tokens: a word (written whole, it     *)
(* stands for its characters) or one of the characters "," "=" " ".        *)
(***************************************************************************)
\* the keys of UE_PATTERNS that detect_ue_pattern reports
PatternTypes == {"UPROPERTY", "UFUNCTION", "UCLASS", "USTRUCT", "UENUM", "UINTERFACE"}

BLUEPRINT_SPECIFIERS ==
    { <<"BlueprintCallable">>, <<"BlueprintPure">>, <<"BlueprintImplementableEvent">>,
      <<"BlueprintNativeEvent">>, <<"BlueprintAuthorityOnly">>, <<"BlueprintCosmetic">>,
      <<"BlueprintReadOnly">>, <<"BlueprintReadWrite">>, <<"BlueprintGetter">>,
      <<"BlueprintSetter">>, <<"Blueprintable">>, <<"BlueprintType">>,
      <<"NotBlueprintable">>, <<"EditAnywhere">>, <<"EditDefaultsOnly">>,
      <<"EditInstanceOnly">>, <<"VisibleAnywhere">>, <<"VisibleDefaultsOnly">>,
      <<"VisibleInstanceOnly">> }

REPLICATION_SPECIFIERS ==
    { <<"Replicated">>, <<"ReplicatedUsing">>, <<"NotReplicated">>, <<"Server">>,
      <<"Client">>, <<"NetMulticast">>, <<"Reliable">>, <<"Unreliable">> }

RECURSIVE split_eq_first(_)
\* s.split("=")[0]: the text before the first "="
split_eq_first(s) ==
    IF s = <<>> \/ Head(s) = "=" THEN <<>>
    ELSE <<Head(s)>> \o split_eq_first(Tail(s))

\* a plausible slip: the whole specifier is looked up, its value included
specifier_names_whole(specifiers) == Range(specifiers)

\* {s.split("=")[0].strip() for s in specifiers}
specifier_names(specifiers) ==
    {strip(split_eq_first(specifiers[i])) : i \in 1..Len(specifiers)}

\* detect_ue_pattern: the record appended for one match of a pattern, less
\* its name, line and context
detect_ue_pattern(pattern_type, specifiers_str) ==
    LET specifiers == parse_specifiers(specifiers_str)
    IN [pattern_type |-> pattern_type,
        specifiers |-> specifiers,
        is_blueprint_exposed |->
            (specifier_names(specifiers) \cap BLUEPRINT_SPECIFIERS # {}),
        is_replicated |->
            (specifier_names(specifiers) \cap REPLICATION_SPECIFIERS # {})]

(***************************************************************************)
(* CppAnalyzer._find_uclass_for_node: the UCLASS macro above a class.  The *)
(* content is the sequence of its lines, each a sequence of tokens.        *)
(***************************************************************************)
\* the words in which the text UCLASS occurs
UClassWords == {"UCLASS", "GENERATED_UCLASS_BODY"}

\* "UCLASS" in line
HoldsUCLASS(line) == \E i \in 1..Len(line) : line[i] \in UClassWords

RECURSIVE UntilParen(_)
\* ([^)]*)\): the text up to the first closing parenthesis, which must come
UntilParen(text) ==
    IF text = <<>> THEN [matched |-> FALSE, group |-> <<>>]
    ELSE IF Head(text) = ")" THEN [matched |-> TRUE, group |-> <<>>]
    ELSE LET rest == UntilParen(Tail(text))
         IN [matched |-> rest.matched, group |-> <<Head(text)>> \o rest.group]

\* re.search(r"UCLASS\s*\(([^)]*)\)", line), on a line that holds the text
\* UCLASS once: whether it matches, and its group 1
SearchUClassCall(line) ==
    LET at == CHOOSE i \in 1..Len(line) : line[i] \in UClassWords
        after == lstrip(SubSeq(line, at + 1, Len(line)))
    IN IF line[at] = "UCLASS" /\ after # <<>> /\ Head(after) = "("
       THEN UntilParen(Tail(after))
       ELSE [matched |-> FALSE, group |-> <<>>]

\* the result None of _find_uclass_for_node
NoUClass == [found |-> FALSE, specifiers |-> <<>>]

RECURSIVE ScanAbove(_, _, _)
\* the loop "for i in range(line_num - 1, max(0, line_num - 10), -1)" from i on;
\* i and stop count lines from 0
ScanAbove(lines, i, stop) ==
    IF i <= stop THEN NoUClass
    ELSE IF i >= Len(lines) THEN ScanAbove(lines, i - 1, stop)
    ELSE LET line == lines[i + 1]
             match == SearchUClassCall(line)
         IN IF HoldsUCLASS(line)
            THEN (IF match.matched
                  THEN [found |-> TRUE, specifiers |-> parse_specifiers(match.group)]
                  ELSE [found |-> TRUE, specifiers |-> <<>>])
            ELSE ScanAbove(lines, i - 1, stop)

\* CppAnalyzer._find_uclass_for_node(class_node, content); line_num is
\* class_node.start_point[0], the class's line counted from 0
_find_uclass_for_node(lines, line_num) ==
    IF lines = << <<>> >> THEN NoUClass
    ELSE ScanAbove(lines, line_num - 1, IF line_num - 10 > 0 THEN line_num - 10 ELSE 0)

\* _extract_class_info, lines 374-378: the two UCLASS fields of the class record
uclass_fields(lines, line_num) ==
    LET uclass_match == _find_uclass_for_node(lines, line_num)
    IN [is_uclass |-> uclass_match.found,
        uclass_specifiers |-> uclass_match.specifiers]

(***************************************************************************)
(* CppAnalyzer._build_ue_macro_map and the UPROPERTY lookup of             *)
(* _extract_property_info.  The macro map is a function on the line        *)
(* numbers (from 1) it has an entry for.                                   *)
(***************************************************************************)
\* the list of the loop "for macro in [...]"
UEMacros == <<"UPROPERTY", "UFUNCTION">>

\* macro in line
HoldsMacro(macro, line) == \E i \in 1..Len(line) : line[i] = macro

RECURSIVE SearchMacroCall(_, _)
\* re.search(rf"{macro}\s*\(([^)]*)\)", line): the leftmost match and its group 1
SearchMacroCall(macro, line) ==
    IF line = <<>> THEN [matched |-> FALSE, group |-> <<>>]
    ELSE LET after == lstrip(Tail(line))
             here == IF Head(line) = macro /\ after # <<>> /\ Head(after) = "("
                     THEN UntilParen(Tail(after))
                     ELSE [matched |-> FALSE, group |-> <<>>]
         IN IF here.matched THEN here ELSE SearchMacroCall(macro, Tail(line))

\* macro_map[key] = value
SetItem(macro_map, key, value) ==
    [k \in (DOMAIN macro_map) \cup {key} |-> IF k = key THEN value ELSE macro_map[k]]

\* the body of the inner loop for line i (from 0) and one macro
MarkMacro(macro_map, i, line, macro) ==
    LET match == SearchMacroCall(macro, line)
        entry == [macro |-> macro, specifiers |-> parse_specifiers(match.group)]
    IN IF HoldsMacro(macro, line) /\ match.matched
       THEN SetItem(SetItem(macro_map, i + 1, entry), i + 2, entry)
       ELSE macro_map

RECURSIVE BuildMacroMap(_, _, _)
\* the loop "for i, line in enumerate(lines)" from line i (from 0) on
BuildMacroMap(macro_map, lines, i) ==
    IF i >= Len(lines) THEN macro_map
    ELSE BuildMacroMap(
             MarkMacro(MarkMacro(macro_map, i, lines[i + 1], UEMacros[1]),
                       i, lines[i + 1], UEMacros[2]),
             lines, i + 1)

\* CppAnalyzer._build_ue_macro_map(content)
_build_ue_macro_map(lines) == BuildMacroMap(EmptyDict, lines, 0)

\* ue_macros_by_line.get(line_num) or ue_macros_by_line.get(line_num - 1); an
\* entry is a dict with two keys and so is never falsy
MacroInfo(ue_macros_by_line, line_num) ==
    IF line_num \in DOMAIN ue_macros_by_line THEN {ue_macros_by_line[line_num]}
    ELSE IF line_num - 1 \in DOMAIN ue_macros_by_line
         THEN {ue_macros_by_line[line_num - 1]}
    ELSE {}

\* _extract_property_info, lines 685-706, for a named field whose node starts
\* on line start_row (from 0)
_extract_property_info(ue_macros_by_line, start_row) ==
    LET line_num == start_row + 1
        macro_info == IF ue_macros_by_line = EmptyDict THEN {}
                      ELSE MacroInfo(ue_macros_by_line, line_num)
        found == {info \in macro_info : info.macro = "UPROPERTY"}
    IN [is_uproperty |-> found # {},
        uproperty_specifiers |-> IF found # {} THEN (CHOOSE info \in found : TRUE).specifiers
                                 ELSE <<>>,
        line |-> line_num]

(***************************************************************************)
(* cross_domain._aggregate_cpp_references.  A file path is the sequence of *)
(* its components, each a sequence of characters; the empty path is "".    *)
(***************************************************************************)
\* Path(file_path).name
PathName(file_path) == IF file_path = <<>> THEN <<>> ELSE file_path[Len(file_path)]

\* the index of the last dot of name, or 0
LastDot(name) ==
    IF \E i \in 1..Len(name) : name[i] = "."
    THEN CHOOSE i \in 1..Len(name) :
             name[i] = "." /\ \A j \in (i + 1)..Len(name) : name[j] # "."
    ELSE 0

\* Path(file_path).stem: the name without its last suffix
PathStem(file_path) ==
    LET name == PathName(file_path)
        d == LastDot(name)
    IN IF d <= 1 \/ d = Len(name) THEN name ELSE SubSeq(name, 1, d - 1)

Digits == <<"0", "1", "2", "3", "4", "5", "6", "7", "8", "9">>

RECURSIVE str(_)
\* str(n) of a natural number: its decimal digits
str(n) ==
    IF n < 10 THEN <<Digits[n + 1]>>
    ELSE str(n \div 10) \o <<Digits[(n % 10) + 1]>>

RECURSIVE GroupByFile(_, _)
\* lines 41-48: by_file, in the order the files first appear
GroupByFile(matches, by_file) ==
    IF matches = <<>> THEN by_file
    ELSE LET match == Head(matches)
         IN IF match.file = <<>> THEN GroupByFile(Tail(matches), by_file)
            ELSE IF \E i \in 1..Len(by_file) : by_file[i].file = match.file
            THEN GroupByFile(
                     Tail(matches),
                     [i \in 1..Len(by_file) |->
                         IF by_file[i].file = match.file
                         THEN [by_file[i] EXCEPT !.matches = Append(@, match)]
                         ELSE by_file[i]])
            ELSE GroupByFile(Tail(matches),
                             Append(by_file, [file |-> match.file, matches |-> <<match>>]))

\* the framework prefixes that line 53 strips
FrameworkPrefixes == {"U", "A", "F", "I", "E", "T", "S"}

\* lines 52-54
stripped_name(class_name) ==
    IF class_name # <<>> /\ class_name[1] \in FrameworkPrefixes
    THEN Tail(class_name) ELSE class_name

\* lines 61-65
is_definition_file(file_path, class_name) ==
    LET file_name == PathName(file_path)
        stem == PathStem(file_path)
        stripped == stripped_name(class_name)
    IN \/ stem = class_name
       \/ stem = stripped
       \/ Contains(file_name, stripped \o <<".", "h">>)
       \/ Contains(file_name, stripped \o <<".", "c", "p", "p">>)

RECURSIVE InsertByLine(_, _)
InsertByLine(sorted, m) ==
    IF sorted = <<>> THEN <<m>>
    ELSE IF Head(sorted).line <= m.line
         THEN <<Head(sorted)>> \o InsertByLine(Tail(sorted), m)
         ELSE <<m>> \o sorted

RECURSIVE SortByLine(_)
\* file_matches.sort(key=line): stable, ascending
SortByLine(file_matches) ==
    IF file_matches = <<>> THEN <<>>
    ELSE InsertByLine(SortByLine(SubSeq(file_matches, 1, Len(file_matches) - 1)),
                      file_matches[Len(file_matches)])

RECURSIVE MergeLines_within_two(_, _, _, _, _)
\* a plausible slip: lines count as consecutive only when less than 3 apart
MergeLines_within_two(file_matches, started, current_start, current_end, line_ranges) ==
    IF file_matches = <<>>
    THEN (IF started THEN Append(line_ranges, <<current_start, current_end>>)
          ELSE line_ranges)
    ELSE LET line == Head(file_matches).line
         IN IF ~started
            THEN MergeLines_within_two(Tail(file_matches), TRUE, line, line, line_ranges)
            ELSE IF line < current_end + 3
            THEN MergeLines_within_two(Tail(file_matches), TRUE, current_start, line,
                                       line_ranges)
            ELSE MergeLines_within_two(Tail(file_matches), TRUE, line, line,
                                       Append(line_ranges, <<current_start, current_end>>))

RECURSIVE MergeLines(_, _, _, _, _)
\* lines 75-86: started is "current_start is not None"
MergeLines(file_matches, started, current_start, current_end, line_ranges) ==
    IF file_matches = <<>>
    THEN (IF started THEN Append(line_ranges, <<current_start, current_end>>)
          ELSE line_ranges)
    ELSE LET line == Head(file_matches).line
         IN IF ~started
            THEN MergeLines(Tail(file_matches), TRUE, line, line, line_ranges)
            ELSE IF line <= current_end + 3
            THEN MergeLines(Tail(file_matches), TRUE, current_start, line, line_ranges)
            ELSE MergeLines(Tail(file_matches), TRUE, line, line,
                            Append(line_ranges, <<current_start, current_end>>))

\* [f"{s}-{e}" if s != e else str(s) for s, e in line_ranges]
FormatRanges(line_ranges) ==
    [i \in 1..Len(line_ranges) |->
        IF line_ranges[i][1] # line_ranges[i][2]
        THEN str(line_ranges[i][1]) \o <<"-">> \o str(line_ranges[i][2])
        ELSE str(line_ranges[i][1])]

\* lines 104-111: line and first context line (cut at 100 characters) of the
\* first max_lines_per_file matches
SampleLines(file_matches, max_lines_per_file) ==
    LET n == IF Len(file_matches) < max_lines_per_file
             THEN Len(file_matches) ELSE max_lines_per_file
    IN [i \in 1..n |->
           [line |-> file_matches[i].line,
            context |-> LET first == Head(file_matches[i].context)
                        IN SubSeq(first, 1, IF Len(first) < 100 THEN Len(first) ELSE 100)]]

\* lines 57-123: the entry of one file
AggregatedEntry(file_path, unsorted, class_name, max_lines_per_file) ==
    LET file_matches == SortByLine(unsorted)
        line_ranges == MergeLines(file_matches, FALSE, 0, 0, <<>>)
        total_matches == Len(file_matches)
    IN IF is_definition_file(file_path, class_name)
       THEN [file |-> file_path, is_definition |-> TRUE,
             match_count |-> total_matches,
             line_ranges |-> FormatRanges(line_ranges),
             note |-> <<"Class definition file (">> \o str(total_matches)
                      \o <<" references, likely self-references)">>]
       ELSE IF total_matches > max_lines_per_file
       THEN [file |-> file_path, is_definition |-> FALSE,
             match_count |-> total_matches,
             line_ranges |-> FormatRanges(line_ranges),
             sample_lines |-> SampleLines(file_matches, max_lines_per_file),
             truncated |-> TRUE]
       ELSE [file |-> file_path, is_definition |-> FALSE,
             match_count |-> total_matches,
             line_ranges |-> FormatRanges(line_ranges),
             sample_lines |-> SampleLines(file_matches, max_lines_per_file)]

\* a plausible slip: usage files by ascending match count
SortKeyBefore_ascending(x, y) ==
    \/ ~x.is_definition /\ y.is_definition
    \/ x.is_definition = y.is_definition /\ x.match_count < y.match_count

\* line 126: the key (is_definition, -match_count) of x is lower than that of y
SortKeyBefore(x, y) ==
    \/ ~x.is_definition /\ y.is_definition
    \/ x.is_definition = y.is_definition /\ -x.match_count < -y.match_count

RECURSIVE InsertByKey(_, _)
InsertByKey(sorted, entry) ==
    IF sorted = <<>> THEN <<entry>>
    ELSE IF SortKeyBefore(entry, Head(sorted))
         THEN <<entry>> \o sorted
         ELSE <<Head(sorted)>> \o InsertByKey(Tail(sorted), entry)

RECURSIVE SortAggregated(_)
\* aggregated.sort(key=...): stable, ascending in the key
SortAggregated(aggregated) ==
    IF aggregated = <<>> THEN <<>>
    ELSE InsertByKey(SortAggregated(SubSeq(aggregated, 1, Len(aggregated) - 1)),
                     aggregated[Len(aggregated)])

\* _aggregate_cpp_references(matches, class_name, max_lines_per_file)
_aggregate_cpp_references(matches, class_name, max_lines_per_file) ==
    LET by_file == GroupByFile(matches, <<>>)
    IN SortAggregated(
           [i \in 1..Len(by_file) |->
               AggregatedEntry(by_file[i].file, by_file[i].matches,
                               class_name, max_lines_per_file)])

(***************************************************************************)
(* The analyzer's entry points as actions.                                 *)
(***************************************************************************)
ScopeArgs == {None, "engine", "all"}

ParseFile(file_path) ==
    LET r == _parse_file(Analyzer, file_path)
    IN /\ SetAnalyzer(r.st)
       /\ call' = [op |-> "_parse_file", file_path |-> file_path]
       /\ ret' = [raised |-> r.raised]
       /\ scan' = NoScan
       /\ UNCHANGED <<legacyVars, configVars, reading, frames, client>>

\* _parse_file up to the file read (lines 305-310), run by query k: a cache hit
\* returns, a missing file raises, and otherwise the query goes on to read
CheckCache(k, file_path) ==
    /\ reading[k] = NoPath
    /\ call' = [op |-> "_parse_file", file_path |-> file_path, query |-> k]
    /\ IF file_path \in DOMAIN ast_cache
       THEN /\ SetAnalyzer([Analyzer EXCEPT !.access = MoveToEnd(access, file_path)])
            /\ ret' = [raised |-> FALSE]
            /\ UNCHANGED reading
       ELSE IF file_path \notin ExistingFiles
       THEN /\ ret' = [raised |-> TRUE]
            /\ UNCHANGED <<cacheVars, historyVars, reading, frames, client>>
       ELSE /\ ret' = [pending |-> TRUE]
            /\ reading' = [reading EXCEPT ![k] = file_path]
            /\ UNCHANGED <<cacheVars, historyVars>>
    /\ scan' = NoScan
    /\ UNCHANGED <<legacyVars, configVars, frames, client>>

\* _parse_file from the file read on (lines 312-320), run by query k
ReadAndInsert(k) ==
    /\ reading[k] # NoPath
    /\ Len(cache_queue) < MaxQueue
    /\ SetAnalyzer(_parse_file_read(Analyzer, reading[k]).st)
    /\ reading' = [reading EXCEPT ![k] = NoPath]
    /\ call' = [op |-> "_parse_file", file_path |-> reading[k], query |-> k]
    /\ ret' = [raised |-> FALSE]
    /\ scan' = NoScan
    /\ UNCHANGED <<legacyVars, configVars, frames, client>>

AnalyzeClass(class_name, source_path, scope) ==
    LET r == analyze_class(Analyzer, class_name, source_path, scope)
    IN /\ SetAnalyzer(r.st)
       /\ call' = [op |-> "analyze_class", class_name |-> class_name,
                   source_path |-> source_path, scope |-> scope]
       /\ ret' = [raised |-> r.raised, value |-> r.value]
       /\ scan' = NoScan
       /\ UNCHANGED <<legacyVars, configVars, reading, frames, client>>

FindClassHierarchy(class_name, include_interfaces, scope) ==
    LET r == find_class_hierarchy(Analyzer, class_name, include_interfaces, scope)
    IN /\ SetAnalyzer(r.st)
       /\ call' = [op |-> "find_class_hierarchy", class_name |-> class_name,
                   include_interfaces |-> include_interfaces, scope |-> scope]
       /\ ret' = [raised |-> None, value |-> r.node]
       /\ scan' = NoScan
       /\ UNCHANGED <<legacyVars, configVars, reading, frames, client>>

SearchCode(query, include_comments, scope, max_results, query_mode) ==
    /\ call' = [op |-> "search_code", query |-> query,
                include_comments |-> include_comments, scope |-> scope,
                max_results |-> max_results, query_mode |-> query_mode]
    /\ LET r == search_code_run(query, include_comments, scope, max_results,
                                query_mode)
       IN ret' = r.value /\ scan' = r.scan
    /\ UNCHANGED <<cacheVars, historyVars, legacyVars, configVars, reading, frames, client>>

FindReferences(identifier, scope) ==
    /\ call' = [op |-> "find_references", identifier |-> identifier, scope |-> scope]
    /\ LET r == find_references_run(identifier, scope)
       IN ret' = r.value /\ scan' = r.scan
    /\ UNCHANGED <<cacheVars, historyVars, legacyVars, configVars, reading, frames, client>>

AddSourcePath(path, source_type, is_engine, label) ==
    /\ source_configs' =
           add_source_path(source_configs, path, source_type, is_engine, label)
    /\ cpp_source_paths' = add_source_path_legacy(source_configs, cpp_source_paths, path)
    /\ call' = [op |-> "add_source_path", path |-> path,
                source_type |-> source_type, is_engine |-> is_engine,
                label |-> label]
    /\ ret' = [raised |-> None]
    /\ scan' = NoScan
    /\ UNCHANGED <<cacheVars, historyVars, legacyVars, default_scope, cache_max_size, reading, frames, client>>

GetSourcePaths(scope) ==
    /\ call' = [op |-> "get_source_paths", scope |-> scope]
    /\ ret' = [raised |-> None,
               value |-> get_source_paths(source_configs, default_scope, scope)]
    /\ scan' = NoScan
    /\ UNCHANGED <<cacheVars, historyVars, legacyVars, configVars, reading, frames, client>>

\* CppAnalyzer.initialize(engine_path)
Initialize(engine_path) ==
    /\ call' = [op |-> "initialize", engine_path |-> engine_path]
    /\ IF ~Exists(engine_path)
       THEN /\ ret' = [raised |-> "ValueError: Invalid path"]
            /\ UNCHANGED <<unreal_path, source_configs, cpp_source_paths>>
       ELSE /\ ret' = [raised |-> None]
            /\ unreal_path' = resolve(engine_path)
            /\ source_configs' =
                   add_source_path(source_configs, engine_path, PROJECT_SOURCE, TRUE, "")
            /\ cpp_source_paths' =
                   add_source_path_legacy(source_configs, cpp_source_paths, engine_path)
    /\ scan' = NoScan
    /\ UNCHANGED <<cacheVars, historyVars, custom_path, default_scope, cache_max_size, reading, frames, client>>

\* CppAnalyzer.initialize_custom_codebase(custom_path)
InitializeCustomCodebase(path) ==
    /\ call' = [op |-> "initialize_custom_codebase", custom_path |-> path]
    /\ IF ~Exists(path)
       THEN /\ ret' = [raised |-> "ValueError: Invalid path"]
            /\ UNCHANGED <<custom_path, source_configs, cpp_source_paths>>
       ELSE /\ ret' = [raised |-> None]
            /\ custom_path' = resolve(path)
            /\ source_configs' =
                   add_source_path(source_configs, path, PROJECT_SOURCE, FALSE, "")
            /\ cpp_source_paths' =
                   add_source_path_legacy(source_configs, cpp_source_paths, path)
    /\ scan' = NoScan
    /\ UNCHANGED <<cacheVars, historyVars, unreal_path, default_scope, cache_max_size, reading, frames, client>>

(***************************************************************************)
(* find_class_hierarchy call by call: every call of the recursion is a     *)
(* frame, and the interpreter refuses a call deeper than its recursion     *)
(* limit with a RecursionError.                                            *)
(***************************************************************************)
\* the frame of a call that has not yet looked its class up
NewFrame(class_name) ==
    [class_name |-> class_name, phase |-> "analyze", todo |-> <<>>, nodes |-> <<>>,
     interfaces |-> <<>>]

\* the frames below the innermost one
Callers == SubSeq(frames, 1, Len(frames) - 1)

\* the innermost frame
Callee == frames[Len(frames)]

\* lines 794-807 in the calling frame: the returned hierarchy is copied and
\* appended, and the loop goes on to the next superclass
Appended(frame, node) ==
    [frame EXCEPT !.nodes = Append(@, CopyOfSuper(node)), !.todo = Tail(@)]

\* a plausible slip: the handler catches ValueError only, and the
\* RecursionError leaves every frame
on_recursion_error_uncaught(fs) ==
    [frames |-> <<>>, ret |-> [raised |-> "RecursionError", value |-> None]]

\* lines 808-809, "except Exception": the frame whose call was refused appends
\* a bare node for the superclass and goes on
on_recursion_error(fs) ==
    LET superclass == Head(fs[Len(fs)].todo)
    IN [frames |-> [fs EXCEPT ![Len(fs)] =
                       [@ EXCEPT !.nodes = Append(@, ClassHierarchy(superclass, <<>>, <<>>)),
                                 !.todo = Tail(@)]],
        ret |-> ret]

\* "return ...to_dict()" of the innermost frame: to the calling frame, or to
\* the caller of the entry point
ReturnNode(node) ==
    IF Callers = <<>>
    THEN /\ frames' = <<>>
         /\ ret' = [raised |-> None, value |-> node]
    ELSE /\ frames' = [Callers EXCEPT ![Len(Callers)] = Appended(@, node)]
         /\ UNCHANGED ret

\* history: the call in flight has taken one more step
Stepped == [call EXCEPT !.steps = @ + 1]

\* the entry point is called
HierarchyCall(class_name, include_interfaces, scope) ==
    /\ frames = <<>>
    /\ client = NoRequest
    /\ frames' = <<NewFrame(class_name)>>
    /\ call' = [op |-> "find_class_hierarchy", class_name |-> class_name,
                include_interfaces |-> include_interfaces, scope |-> scope,
                steps |-> 0]
    /\ ret' = [pending |-> TRUE]
    /\ scan' = NoScan
    /\ UNCHANGED <<cacheVars, historyVars, legacyVars, configVars, reading, client>>

\* lines 781-789: the class is looked up; not found, a bare node is returned
HierarchyAnalyze ==
    /\ frames # <<>>
    /\ Callee.phase = "analyze"
    /\ LET a == analyze_class(Analyzer, Callee.class_name, NoPath, call.scope)
       IN /\ SetAnalyzer(a.st)
          /\ IF a.raised # None
             THEN ReturnNode(ClassHierarchy(Callee.class_name, <<>>, <<>>))
             ELSE /\ frames' = [frames EXCEPT ![Len(frames)] =
                                   [@ EXCEPT !.phase = "loop",
                                             !.todo = a.value.superclasses,
                                             !.interfaces =
                                                 IF call.include_interfaces
                                                 THEN a.value.interfaces ELSE <<>>]]
                  /\ UNCHANGED ret
    /\ scan' = NoScan
    /\ call' = Stepped
    /\ UNCHANGED <<legacyVars, configVars, reading, client>>

\* lines 792-795: the call for the next superclass
HierarchyDescend ==
    /\ frames # <<>>
    /\ Callee.phase = "loop"
    /\ Callee.todo # <<>>
    /\ Len(frames) < RecursionLimit
    /\ frames' = Append(frames, NewFrame(Head(Callee.todo)))
    /\ scan' = NoScan
    /\ call' = Stepped
    /\ UNCHANGED <<cacheVars, historyVars, legacyVars, configVars, reading, ret, client>>

\* the call for the next superclass is refused with a RecursionError
HierarchyRecursionError ==
    /\ frames # <<>>
    /\ Callee.phase = "loop"
    /\ Callee.todo # <<>>
    /\ Len(frames) >= RecursionLimit
    /\ LET r == on_recursion_error(frames)
       IN frames' = r.frames /\ ret' = r.ret
    /\ scan' = NoScan
    /\ call' = Stepped
    /\ UNCHANGED <<cacheVars, historyVars, legacyVars, configVars, reading, client>>

\* line 811: every superclass is done
HierarchyReturn ==
    /\ frames # <<>>
    /\ Callee.phase = "loop"
    /\ Callee.todo = <<>>
    /\ ReturnNode(ClassHierarchy(Callee.class_name, Callee.nodes, Callee.interfaces))
    /\ scan' = NoScan
    /\ call' = Stepped
    /\ UNCHANGED <<cacheVars, historyVars, legacyVars, configVars, reading, client>>

\* the steps of a call in flight
HierarchyStep ==
    \/ HierarchyAnalyze
    \/ HierarchyDescend
    \/ HierarchyRecursionError
    \/ HierarchyReturn

\* the classes the hierarchy queries ask for: one of the two that name each
\* other as base, and the head of a chain that ends
HierarchyNames == {UC, UX}

\* A fresh analyzer whose configuration holds the codebase K as project source
\* and the engine's Source.
InitHierarchy ==
    /\ ast_cache = EmptyDict
    /\ class_cache = EmptyDict
    /\ cache_queue = <<>>
    /\ unreal_path = NoPath
    /\ custom_path = NoPath
    /\ source_configs = << SourceConfig(K, PROJECT_SOURCE, ""), SourceConfig(E, ENGINE_SOURCE, "") >>
    /\ cpp_source_paths = <<K, E>>
    /\ default_scope = "project"
    /\ cache_max_size = _max_cache_size
    /\ call = [op |-> "init"]
    /\ ret = [raised |-> None]
    /\ order = <<>>
    /\ access = <<>>
    /\ evicted = NoEviction
    /\ reading = Idle
    /\ frames = <<>>
    /\ client = NoRequest
    /\ scan = NoScan

NextHierarchy ==
    \/ \E class_name \in HierarchyNames, include_interfaces \in BOOLEAN,
          scope \in {None, "all"} :
           HierarchyCall(class_name, include_interfaces, scope)
    \/ HierarchyStep

\* Hierarchy queries, one at a time, each run call by call.
SpecHierarchy == InitHierarchy /\ [][NextHierarchy]_vars

\* the files of the codebase K, and the classes of the last of them
MemberFiles == {f \in ExistingFiles : IsPrefix(K, f)}
MemberNames == {UT, UW, UV}

NextMembers ==
    \/ \E file_path \in MemberFiles \cup {<<"E", "a.h">>} : ParseFile(file_path)
    \/ \E class_name \in MemberNames \cup {UO}, scope \in {None, "all"} :
           AnalyzeClass(class_name, NoPath, scope)

\* Parse requests and class lookups over the codebase K, in whose last file a
\* class has a member that cannot be extracted.
SpecMembers == InitHierarchy /\ [][NextMembers]_vars

\* the classes the walks look for: two of the codebase K, one of the engine,
\* one that no file defines
WalkNames == {UC, UD, UX, ZZ}

NextWalk ==
    \/ \E class_name \in WalkNames, scope \in {None, "all"} :
           AnalyzeClass(class_name, NoPath, scope)
    \/ \E query \in {<<"a">>, <<"b">>, <<"A">>}, scope \in {None, "all"},
          query_mode \in {"regex", "tokens"} :
           SearchCode(query, TRUE, scope, 500, query_mode)
    \/ AddSourcePath(P, PROJECT_SOURCE, FALSE, "")

\* Walks over the codebase K, whose first file cannot be read, the engine, and
\* the project once it is added.
SpecWalk == InitHierarchy /\ [][NextWalk]_vars

(***************************************************************************)
(* UEPluginClient.get_with_async and _fetch_async_job, request by request. *)
(* The server is free in what it answers; the clock counts poll intervals. *)
(***************************************************************************)
\* the most characters of a job's result, and the latest reading of the clock
MaxTotalChars == 3
MaxClock == 4

\* the "status" values a status poll may carry; "" stands for a missing key
JobStates == {"done", "error", "running", ""}

\* the call has ended with UEPluginError
Raised(c, why) == [c EXCEPT !.pc = "raised", !.why = why]

\* a plausible slip: the error state is not looked at and counts as done
on_status_error_as_done(c, state, total_chars) ==
    IF state \in {"done", "error"}
    THEN [c EXCEPT !.pc = "fetch", !.total_chars = total_chars, !.done_seen = state = "done"]
    ELSE IF c.clock > c.timeout_s
    THEN Raised(c, "timeout")
    ELSE [c EXCEPT !.pc = "sleep"]

\* lines 219-233: what the poll loop does with the status it received; the
\* clock reads time.monotonic() - start_t
on_status(c, state, total_chars) ==
    IF state = "done"
    THEN [c EXCEPT !.pc = "fetch", !.total_chars = total_chars, !.done_seen = TRUE]
    ELSE IF state = "error"
    THEN Raised(c, "job failed")
    ELSE IF c.clock > c.timeout_s
    THEN Raised(c, "timeout")
    ELSE [c EXCEPT !.pc = "sleep"]

\* line 174: the first request; the server answers directly, or with the
\* envelope of an async job, or the request fails
GetWithAsync(timeout_s, chunk_size) ==
    /\ client.pc \in {"idle", "returned", "raised"}
    /\ \E answer \in {"direct", "async", "failed"} :
           client' = [pc |-> CASE answer = "direct" -> "returned"
                               [] answer = "async" -> "poll"
                               [] answer = "failed" -> "raised",
                      why |-> IF answer = "failed" THEN "request" ELSE "",
                      envelope |-> answer = "async",
                      timeout_s |-> timeout_s, chunk_size |-> chunk_size,
                      clock |-> 0, total_chars |-> 0, offset |-> 0, part_done |-> FALSE,
                      polls |-> 0, done_seen |-> FALSE, chunk_requests |-> 0]
    /\ call' = [op |-> "get_with_async", timeout_s |-> timeout_s,
                chunk_size |-> chunk_size]
    /\ ret' = [raised |-> None]
    /\ scan' = NoScan
    /\ UNCHANGED <<cacheVars, historyVars, legacyVars, configVars, reading, frames>>

\* line 218: a status poll and what follows from its answer (or the request fails)
PollStatus ==
    /\ client.pc = "poll"
    /\ \/ \E state \in JobStates, total_chars \in 0..MaxTotalChars :
              client' = on_status([client EXCEPT !.polls = @ + 1], state, total_chars)
       \/ client' = Raised([client EXCEPT !.polls = @ + 1], "request")
    /\ scan' = NoScan
    /\ UNCHANGED <<cacheVars, historyVars, legacyVars, configVars, reading, frames,
                   call, ret>>

\* line 233: asyncio.sleep(poll_interval_s) lasts one interval or longer
Sleep ==
    /\ client.pc = "sleep"
    /\ \E later \in (client.clock + 1)..MaxClock :
           client' = [client EXCEPT !.pc = "poll", !.clock = later]
    /\ scan' = NoScan
    /\ UNCHANGED <<cacheVars, historyVars, legacyVars, configVars, reading, frames,
                   call, ret>>

\* lines 239-252: one request for a chunk of the result; the server names the
\* next offset or leaves it out, and may say that this was the last chunk
FetchChunk ==
    /\ client.pc = "fetch"
    /\ client.offset < client.total_chars
    /\ ~client.part_done
    /\ \/ \E done \in BOOLEAN, next_offset \in {client.offset + 1,
                                                  client.offset + client.chunk_size} :
              client' = [client EXCEPT !.chunk_requests = @ + 1,
                                       !.offset = next_offset,
                                       !.part_done = done]
       \/ client' = Raised([client EXCEPT !.chunk_requests = @ + 1], "request")
    /\ scan' = NoScan
    /\ UNCHANGED <<cacheVars, historyVars, legacyVars, configVars, reading, frames,
                   call, ret>>

\* lines 255-258: the chunks are joined and parsed; the text may not be JSON
Reassemble ==
    /\ client.pc = "fetch"
    /\ client.offset >= client.total_chars \/ client.part_done
    /\ \/ client.chunk_requests > 0 /\ client' = [client EXCEPT !.pc = "returned"]
       \/ client' = Raised(client, "parse")
    /\ scan' = NoScan
    /\ UNCHANGED <<cacheVars, historyVars, legacyVars, configVars, reading, frames,
                   call, ret>>

\* A fresh client of the plugin's HTTP interface.
InitClient ==
    /\ ast_cache = EmptyDict
    /\ class_cache = EmptyDict
    /\ cache_queue = <<>>
    /\ unreal_path = NoPath
    /\ custom_path = NoPath
    /\ source_configs = <<>>
    /\ cpp_source_paths = <<>>
    /\ default_scope = "project"
    /\ cache_max_size = _max_cache_size
    /\ call = [op |-> "init"]
    /\ ret = [raised |-> None]
    /\ order = <<>>
    /\ access = <<>>
    /\ evicted = NoEviction
    /\ reading = Idle
    /\ frames = <<>>
    /\ client = NoRequest
    /\ scan = NoScan

NextClient ==
    \/ \E timeout_s \in {1, 2}, chunk_size \in {1, 2} : GetWithAsync(timeout_s, chunk_size)
    \/ PollStatus
    \/ Sleep
    \/ FetchChunk
    \/ Reassemble

\* get_with_async calls, one at a time, against a server that answers freely.
SpecClient == InitClient /\ [][NextClient]_vars

\* the class names the queries ask for
QueryNames == {AH, AA, UX, ZZ}

\* A fresh analyzer; the configuration holds the project's and the engine's Source.
Init ==
    /\ ast_cache = EmptyDict
    /\ class_cache = EmptyDict
    /\ cache_queue = <<>>
    /\ unreal_path = NoPath
    /\ custom_path = NoPath
    /\ source_configs = << SourceConfig(P, PROJECT_SOURCE, ""), SourceConfig(E, ENGINE_SOURCE, "") >>
    /\ cpp_source_paths = <<P, E>>
    /\ default_scope = "project"
    /\ cache_max_size = _max_cache_size
    /\ call = [op |-> "init"]
    /\ ret = [raised |-> None]
    /\ order = <<>>
    /\ access = <<>>
    /\ evicted = NoEviction
    /\ reading = Idle
    /\ frames = <<>>
    /\ client = NoRequest
    /\ scan = NoScan

Next ==
    \/ \E class_name \in QueryNames, scope \in ScopeArgs :
           AnalyzeClass(class_name, NoPath, scope)
    \/ \E class_name \in QueryNames : AnalyzeClass(class_name, E, None)
    \/ \E class_name \in QueryNames, include_interfaces \in BOOLEAN, scope \in ScopeArgs :
           FindClassHierarchy(class_name, include_interfaces, scope)

\* Queries against the index: class lookup and hierarchy building.
Spec == Init /\ [][Next]_vars

\* A fresh analyzer whose configuration sets ANALYZER_CACHE_MAX_SIZE to the
\* default (the analyzer's own bound) or to one entry less.
InitCache ==
    /\ ast_cache = EmptyDict
    /\ class_cache = EmptyDict
    /\ cache_queue = <<>>
    /\ unreal_path = NoPath
    /\ custom_path = NoPath
    /\ source_configs = << SourceConfig(P, PROJECT_SOURCE, ""), SourceConfig(E, ENGINE_SOURCE, "") >>
    /\ cpp_source_paths = <<P, E>>
    /\ default_scope = "project"
    /\ cache_max_size \in {_max_cache_size - 1, _max_cache_size}
    /\ call = [op |-> "init"]
    /\ ret = [raised |-> None]
    /\ order = <<>>
    /\ access = <<>>
    /\ evicted = NoEviction
    /\ reading = Idle
    /\ frames = <<>>
    /\ client = NoRequest
    /\ scan = NoScan

NextCache == \E file_path \in FilePaths : ParseFile(file_path)

\* Sequential parse requests on arbitrary paths.
SpecCache == InitCache /\ [][NextCache]_vars

\* the files the interleaved queries ask for
InterleavedFiles == { <<"P", "h.h">>, <<"P", "p.h">>, <<"E", "a.h">>, MissingFile }

NextInterleaved ==
    \/ \E k \in QueryIds, file_path \in InterleavedFiles : CheckCache(k, file_path)
    \/ \E k \in QueryIds : ReadAndInsert(k)

\* Two queries parse files on one analyzer; the host may switch between them
\* at the file read, the one point of _parse_file at which it waits for I/O.
\* Nothing in _parse_file or _manage_cache takes a lock.
SpecInterleaved == Init /\ [][NextInterleaved]_vars

\* A fresh analyzer and an empty configuration whose default scope is the
\* shipped one (project) or was set to all.
InitSearch ==
    /\ ast_cache = EmptyDict
    /\ class_cache = EmptyDict
    /\ cache_queue = <<>>
    /\ unreal_path = NoPath
    /\ custom_path = NoPath
    /\ source_configs = <<>>
    /\ cpp_source_paths = <<>>
    /\ default_scope \in {"project", "all"}
    /\ cache_max_size = _max_cache_size
    /\ call = [op |-> "init"]
    /\ ret = [raised |-> None]
    /\ order = <<>>
    /\ access = <<>>
    /\ evicted = NoEviction
    /\ reading = Idle
    /\ frames = <<>>
    /\ client = NoRequest
    /\ scan = NoScan

\* the scope arguments of search_code: absent, the four scopes, an unknown string
SearchScopeArgs == {None} \cup SearchScopes \cup {"bogus"}

NextSearch ==
    \/ \E path \in {P, <<".", "P">>, EG}, source_type \in SourceTypes :
           AddSourcePath(path, source_type, FALSE, "")
    \/ \E engine_path \in {E, NoDir} : Initialize(engine_path)
    \/ \E path \in {P, NoDir} : InitializeCustomCodebase(path)
    \/ \E scope \in SearchScopeArgs, query_mode \in {"regex", "tokens"} :
           SearchCode(<<"a">>, TRUE, scope, 500, query_mode)

\* Roots are configured, then searched, in any order.
SpecSearch == InitSearch /\ [][NextSearch]_vars

\* the queries: one token, two tokens, a repeated token, mixed case, surrounding
\* and repeated blanks, no token, a token no line holds, a metacharacter
Queries ==
    { <<"a">>, <<"a", " ", "b">>, <<"a", " ", "a">>, <<"A", " ", "b">>,
      <<" ", "b", " ", " ", "a", " ">>, <<" ">>, <<"b", "b">>, <<"(">>,
      <<"a", " ", "b", " ", "a">>, <<"b", "a">> }

NextScore ==
    \E query \in Queries, include_comments \in BOOLEAN,
       scope \in {None, "all"}, max_results \in {2, 500},
       query_mode \in {"regex", "tokens", "smart"} :
        SearchCode(query, include_comments, scope, max_results, query_mode)

\* Searches over the fixed configuration: the project's and the engine's Source.
SpecScore == Init /\ [][NextScore]_vars

\* the scope arguments of the entry points: absent, or the engine
EntryScopes == {None, "engine"}

NextEntry ==
    \/ \E path \in {P, E}, source_type \in {PROJECT_SOURCE, ENGINE_PLUGIN} :
           AddSourcePath(path, source_type, FALSE, "")
    \/ \E query \in {<<"a">>, <<"(">>, <<" ">>}, scope \in EntryScopes,
          query_mode \in {"regex", "tokens"} :
           SearchCode(query, TRUE, scope, 500, query_mode)
    \/ \E scope \in EntryScopes : FindReferences(<<"a">>, scope)
    \/ \E scope \in EntryScopes : AnalyzeClass(AH, NoPath, scope)
    \/ \E scope \in EntryScopes : FindClassHierarchy(AP, TRUE, scope)

\* The four query entry points on a configuration that starts without roots.
SpecEntry == InitSearch /\ [][NextEntry]_vars

\* A fresh analyzer and an empty configuration; DEFAULT_SEARCH_SCOPE names any
\* of the four scopes.
InitConfig ==
    /\ ast_cache = EmptyDict
    /\ class_cache = EmptyDict
    /\ cache_queue = <<>>
    /\ unreal_path = NoPath
    /\ custom_path = NoPath
    /\ source_configs = <<>>
    /\ cpp_source_paths = <<>>
    /\ default_scope \in SearchScopes
    /\ cache_max_size = _max_cache_size
    /\ call = [op |-> "init"]
    /\ ret = [raised |-> None]
    /\ order = <<>>
    /\ access = <<>>
    /\ evicted = NoEviction
    /\ reading = Idle
    /\ frames = <<>>
    /\ client = NoRequest
    /\ scan = NoScan

\* the labels add_source_path is given: none, or a plugin's name
Labels == {"", "lyra"}

NextConfig ==
    \/ \E path \in {P, <<".", "P">>, E}, source_type \in SourceTypes,
          is_engine \in BOOLEAN, label \in Labels :
           AddSourcePath(path, source_type, is_engine, label)
    \/ \E scope \in {None} \cup SearchScopes : GetSourcePaths(scope)

\* Roots are added and the scopes are resolved, in any order.
SpecConfig == InitConfig /\ [][NextConfig]_vars

\* the caps of the searches: none, one, two, and the default
MaxResultsArgs == {0, 1, 2, 500}

NextCap ==
    \/ \E engine_path \in {E, NoDir} : Initialize(engine_path)
    \/ \E source_type \in {PROJECT_SOURCE, ENGINE_SOURCE} :
           AddSourcePath(P, source_type, FALSE, "")
    \/ \E query \in {<<"a">>, <<"b">>}, scope \in ScopeArgs,
          max_results \in MaxResultsArgs, query_mode \in {"regex", "tokens"} :
           SearchCode(query, TRUE, scope, max_results, query_mode)

\* Capped searches on a configuration built by initialize and add_source_path.
SpecCap == InitSearch /\ [][NextCap]_vars

\* the longest specifier list
MaxSpecifierChars == 5

\* the characters of a specifier list: a letter, the comma, the double quote,
\* the parentheses, the blank
SpecifierChars == {"a", ",", "\"", "(", ")", " "}

ParseSpecifiers ==
    /\ call.op = "specifiers_str"
    /\ call' = [op |-> "parse_specifiers", specifiers_str |-> call.specifiers_str]
    /\ ret' = [raised |-> None, value |-> parse_specifiers(call.specifiers_str)]
    /\ scan' = NoScan
    /\ UNCHANGED <<cacheVars, historyVars, legacyVars, configVars, reading, frames, client>>

\* Any specifier list is handed to parse_specifiers.
InitSpecifiers ==
    /\ ast_cache = EmptyDict
    /\ class_cache = EmptyDict
    /\ cache_queue = <<>>
    /\ unreal_path = NoPath
    /\ custom_path = NoPath
    /\ source_configs = <<>>
    /\ cpp_source_paths = <<>>
    /\ default_scope = "project"
    /\ cache_max_size = _max_cache_size
    /\ \E specifiers_str \in SeqsUpTo(SpecifierChars, MaxSpecifierChars) :
           call = [op |-> "specifiers_str", specifiers_str |-> specifiers_str]
    /\ ret = [raised |-> None]
    /\ order = <<>>
    /\ access = <<>>
    /\ evicted = NoEviction
    /\ reading = Idle
    /\ frames = <<>>
    /\ client = NoRequest
    /\ scan = NoScan

NextSpecifiers == ParseSpecifiers

SpecSpecifiers == InitSpecifiers /\ [][NextSpecifiers]_vars

\* the longest specifier text of a match, in tokens
MaxPatternTokens == 4

\* the tokens of a specifier text: words of the two vocabularies, a word of
\* neither, the comma, the equals sign, the blank
PatternTokens == {"EditAnywhere", "ReplicatedUsing", "Replicated", "Category",
                  ",", "=", " "}

DetectUePattern ==
    /\ call.op = "match"
    /\ call' = [op |-> "detect_ue_pattern", pattern_type |-> call.pattern_type,
                specifiers_str |-> call.specifiers_str]
    /\ ret' = detect_ue_pattern(call.pattern_type, call.specifiers_str)
    /\ scan' = NoScan
    /\ UNCHANGED <<cacheVars, historyVars, legacyVars, configVars, reading, frames, client>>

\* Any match of a macro pattern, with any specifier text between its parentheses.
InitPattern ==
    /\ ast_cache = EmptyDict
    /\ class_cache = EmptyDict
    /\ cache_queue = <<>>
    /\ unreal_path = NoPath
    /\ custom_path = NoPath
    /\ source_configs = <<>>
    /\ cpp_source_paths = <<>>
    /\ default_scope = "project"
    /\ cache_max_size = _max_cache_size
    /\ \E pattern_type \in PatternTypes,
          specifiers_str \in SeqsUpTo(PatternTokens, MaxPatternTokens) :
           call = [op |-> "match", pattern_type |-> pattern_type,
                   specifiers_str |-> specifiers_str]
    /\ ret = [raised |-> None]
    /\ order = <<>>
    /\ access = <<>>
    /\ evicted = NoEviction
    /\ reading = Idle
    /\ frames = <<>>
    /\ client = NoRequest
    /\ scan = NoScan

NextPattern == DetectUePattern

SpecPattern == InitPattern /\ [][NextPattern]_vars

\* the most lines above the class
MaxLinesAbove == 11

\* the line of the class, and a line of other code
ClassLine == <<"class", " ", "AH">>
OtherLine == <<"x">>

\* the lines that hold the text UCLASS: the macro with one specifier, with two,
\* with none, and the body macro of an earlier class
UClassLines ==
    { <<"UCLASS", "(", "Blueprintable", ")">>,
      <<"UCLASS", " ", "(", "Abstract", ",", " ", "BlueprintType", ")">>,
      <<"UCLASS", "(", ")">>,
      <<"GENERATED_UCLASS_BODY", "(", ")">> }

\* the content: above lines of other code, of which lines a and b (0: none)
\* are la and lb, and then the class
ContentLines(above, a, la, b, lb) ==
    [i \in 1..(above + 1) |->
        IF i = above + 1 THEN ClassLine
        ELSE IF i = a THEN la
        ELSE IF i = b THEN lb
        ELSE OtherLine]

FindUClassForNode ==
    /\ call.op = "class_node"
    /\ call' = [op |-> "_find_uclass_for_node", lines |-> call.lines,
                line_num |-> call.line_num]
    /\ ret' = uclass_fields(call.lines, call.line_num)
    /\ scan' = NoScan
    /\ UNCHANGED <<cacheVars, historyVars, legacyVars, configVars, reading, frames, client>>

\* A class node on any line of a file in which up to two of the lines above it
\* hold the text UCLASS.
InitUClass ==
    /\ ast_cache = EmptyDict
    /\ class_cache = EmptyDict
    /\ cache_queue = <<>>
    /\ unreal_path = NoPath
    /\ custom_path = NoPath
    /\ source_configs = <<>>
    /\ cpp_source_paths = <<>>
    /\ default_scope = "project"
    /\ cache_max_size = _max_cache_size
    /\ \E above \in 0..MaxLinesAbove :
       \E a, b \in 0..above, la, lb \in UClassLines :
           call = [op |-> "class_node",
                   lines |-> ContentLines(above, a, la, b, lb),
                   line_num |-> above]
    /\ ret = [raised |-> None]
    /\ order = <<>>
    /\ access = <<>>
    /\ evicted = NoEviction
    /\ reading = Idle
    /\ frames = <<>>
    /\ client = NoRequest
    /\ scan = NoScan

NextUClass == FindUClassForNode

SpecUClass == InitUClass /\ [][NextUClass]_vars

\* the most lines above the property
MaxLinesAboveField == 4

\* a field declaration
FieldLine == <<"int", " ", "x", ";">>

\* lines that hold a macro: UPROPERTY with one specifier, with two, with none,
\* the first line of a UPROPERTY call that closes on a later line, and UFUNCTION
MacroLines ==
    { <<"UPROPERTY", "(", "EditAnywhere", ")">>,
      <<"UPROPERTY", " ", "(", "Replicated", ",", " ", "BlueprintReadOnly", ")">>,
      <<"UPROPERTY", "(", ")">>,
      <<"UPROPERTY", "(", "EditAnywhere", ",">>,
      <<"UFUNCTION", "(", "BlueprintCallable", ")">> }

\* the content: above lines of other code and then the field, where lines a and
\* b (0: none) start with la and lb
FieldContent(above, a, la, b, lb) ==
    [i \in 1..(above + 1) |->
        LET code == IF i = above + 1 THEN FieldLine ELSE OtherLine
        IN IF i = a THEN la \o (IF i = above + 1 THEN <<" ">> \o code ELSE <<>>)
           ELSE IF i = b THEN lb \o (IF i = above + 1 THEN <<" ">> \o code ELSE <<>>)
           ELSE code]

ExtractPropertyInfo ==
    /\ call.op = "field_declaration"
    /\ call' = [op |-> "_extract_property_info", lines |-> call.lines,
                line_num |-> call.line_num]
    /\ ret' = _extract_property_info(_build_ue_macro_map(call.lines), call.line_num)
    /\ scan' = NoScan
    /\ UNCHANGED <<cacheVars, historyVars, legacyVars, configVars, reading, frames, client>>

\* A field declaration on any line of a class body in which up to two lines, the
\* field's own among them, hold a macro.
InitMacro ==
    /\ ast_cache = EmptyDict
    /\ class_cache = EmptyDict
    /\ cache_queue = <<>>
    /\ unreal_path = NoPath
    /\ custom_path = NoPath
    /\ source_configs = <<>>
    /\ cpp_source_paths = <<>>
    /\ default_scope = "project"
    /\ cache_max_size = _max_cache_size
    /\ \E above \in 0..MaxLinesAboveField :
       \E a, b \in 0..(above + 1), la, lb \in MacroLines :
           call = [op |-> "field_declaration",
                   lines |-> FieldContent(above, a, la, b, lb),
                   line_num |-> above]
    /\ ret = [raised |-> None]
    /\ order = <<>>
    /\ access = <<>>
    /\ evicted = NoEviction
    /\ reading = Idle
    /\ frames = <<>>
    /\ client = NoRequest
    /\ scan = NoScan

NextMacro == ExtractPropertyInfo

SpecMacro == InitMacro /\ [][NextMacro]_vars

\* the most base types of an inheritance clause
MaxBases == 3

\* base-type names: ordinary classes, names with a leading capital I followed
\* by an upper-case or a lower-case letter, the single letter I, names with
\* the suffix Interface
BaseNames == {AA, UO, ID, It, <<"I">>, Interface, XInterface}

ExtractClassInfo ==
    /\ call.op = "class_specifier"
    /\ call' = [op |-> "_extract_class_info", node |-> call.node]
    /\ ret' = [raised |-> None,
               value |-> _extract_class_info(call.node, <<"P", "h.h">>, call.node.class_name)]
    /\ scan' = NoScan
    /\ UNCHANGED <<cacheVars, historyVars, legacyVars, configVars, reading, frames, client>>

ExtractClassInfoUnrealAnalyzer ==
    /\ call.op = "class_specifier"
    /\ call' = [op |-> "_extract_class_info (unreal_analyzer)", node |-> call.node]
    /\ ret' = [raised |-> None,
               value |-> _extract_class_info_unreal_analyzer(
                             call.node, <<"P", "h.h">>, call.node.class_name)]
    /\ scan' = NoScan
    /\ UNCHANGED <<cacheVars, historyVars, legacyVars, configVars, reading, frames, client>>

\* Any class node with a body is handed to the extraction.
InitBases ==
    /\ ast_cache = EmptyDict
    /\ class_cache = EmptyDict
    /\ cache_queue = <<>>
    /\ unreal_path = NoPath
    /\ custom_path = NoPath
    /\ source_configs = <<>>
    /\ cpp_source_paths = <<>>
    /\ default_scope = "project"
    /\ cache_max_size = _max_cache_size
    /\ \E bases \in SeqsUpTo(BaseNames, MaxBases) :
           call = [op |-> "class_specifier", node |-> Node(AH, TRUE, bases)]
    /\ ret = [raised |-> None]
    /\ order = <<>>
    /\ access = <<>>
    /\ evicted = NoEviction
    /\ reading = Idle
    /\ frames = <<>>
    /\ client = NoRequest
    /\ scan = NoScan

NextBases == ExtractClassInfo \/ ExtractClassInfoUnrealAnalyzer

SpecBases == InitBases /\ [][NextBases]_vars

\* the most raw matches handed to the aggregator
MaxMatches == 4

\* the default of the parameter max_lines_per_file
max_lines_per_file == 3

\* files: the header named after the class, two files that use it, and the
\* header of another class whose name ends as the first one does
HealthH == << <<"S">>, <<"H", ".", "h">> >>
MyHealthH == << <<"S">>, <<"X", "H", ".", "h">> >>
WeaponCpp == << <<"S">>, <<"W", ".", "c", "p", "p">> >>
OtherH == << <<"S">>, <<"X", ".", "h">> >>

RawMatch(file, line) ==
    [file |-> file, line |-> line, context |-> << <<"c">>, <<"d">> >>]

\* the raw matches: lines 1 and 4 are within three lines and so are 4 and 7,
\* 4 and 8 are not; one match has no file
RawMatches ==
    { RawMatch(HealthH, 1), RawMatch(HealthH, 4),
      RawMatch(WeaponCpp, 1), RawMatch(WeaponCpp, 4), RawMatch(WeaponCpp, 7),
      RawMatch(WeaponCpp, 8),
      RawMatch(OtherH, 1), RawMatch(MyHealthH, 1), RawMatch(<<>>, 1) }

AggregateCppReferences ==
    /\ call.op = "raw_matches"
    /\ call' = [op |-> "_aggregate_cpp_references", matches |-> call.matches,
                class_name |-> call.class_name]
    /\ ret' = [raised |-> None,
               value |-> _aggregate_cpp_references(call.matches, call.class_name,
                                                   max_lines_per_file)]
    /\ scan' = NoScan
    /\ UNCHANGED <<cacheVars, historyVars, legacyVars, configVars, reading, frames, client>>

\* Any list of raw matches for the class AH, or for no class name, is aggregated.
InitAggregate ==
    /\ ast_cache = EmptyDict
    /\ class_cache = EmptyDict
    /\ cache_queue = <<>>
    /\ unreal_path = NoPath
    /\ custom_path = NoPath
    /\ source_configs = <<>>
    /\ cpp_source_paths = <<>>
    /\ default_scope = "project"
    /\ cache_max_size = _max_cache_size
    /\ \E matches \in SeqsUpTo(RawMatches, MaxMatches), class_name \in {AH, <<>>} :
           call = [op |-> "raw_matches", matches |-> matches, class_name |-> class_name]
    /\ ret = [raised |-> None]
    /\ order = <<>>
    /\ access = <<>>
    /\ evicted = NoEviction
    /\ reading = Idle
    /\ frames = <<>>
    /\ client = NoRequest
    /\ scan = NoScan

NextAggregate == AggregateCppReferences

SpecAggregate == InitAggregate /\ [][NextAggregate]_vars

(***************************************************************************)
(* The index of a scope: the class records that extraction yields from     *)
(* every file under the roots the scope resolves to.                       *)
(***************************************************************************)
RECURSIVE ExtractAll(_, _)
ExtractAll(cls, files) ==
    IF files = <<>> THEN cls
    ELSE ExtractAll(_extract_classes_from_tree(cls, Parse(Head(files)), Head(files)),
                    Tail(files))

IndexOf(scope) ==
    ExtractAll(EmptyDict,
               WalkOrder(get_source_paths(source_configs, default_scope, scope)))

RECURSIVE FullHierarchy(_, _, _)
RECURSIVE FullHierarchies(_, _, _)
\* the tree that holds every ancestor of class_name that the index knows
FullHierarchy(index, class_name, include_interfaces) ==
    IF class_name \notin DOMAIN index THEN ClassHierarchy(class_name, <<>>, <<>>)
    ELSE ClassHierarchy(class_name,
             FullHierarchies(index, index[class_name].superclasses, include_interfaces),
             IF include_interfaces THEN index[class_name].interfaces ELSE <<>>)

FullHierarchies(index, names, include_interfaces) ==
    IF names = <<>> THEN <<>>
    ELSE <<FullHierarchy(index, Head(names), include_interfaces)>>
         \o FullHierarchies(index, Tail(names), include_interfaces)

RECURSIVE Ancestors(_, _)
\* class_name and the classes reachable from it along the index's superclass lists
Ancestors(index, class_name) ==
    {class_name} \cup
    (IF class_name \notin DOMAIN index THEN {}
     ELSE UNION {Ancestors(index, s) : s \in Range(index[class_name].superclasses)})

RECURSIVE NodesOf(_)
\* every node of a hierarchy tree
NodesOf(node) ==
    {node} \cup UNION {NodesOf(child) : child \in Range(node.superclasses)}

\* file lies under one of the roots
Under(file, roots) == \E i \in 1..Len(roots) : IsPrefix(roots[i], file)

\* the roots tagged project (source or plugin), and those tagged engine
ProjectRoots == PathsOfType(source_configs, {PROJECT_SOURCE, PROJECT_PLUGIN})
EngineRoots == PathsOfType(source_configs, {ENGINE_SOURCE, ENGINE_PLUGIN})

(***************************************************************************)
(* C1. Every match of a search_code call whose scope is project (given,    *)
(* defaulted, or substituted for an unknown scope string) has its file     *)
(* under a root tagged project; a file under an engine root is returned    *)
(* only if it is under a project-tagged root as well.                      *)
(***************************************************************************)
C1_ProjectMatchesUnderProjectRoots ==
    (call.op = "search_code" /\ NormScope(call.scope) = "project") =>
        \A i \in 1..Len(ret.matches) : Under(ret.matches[i].file, ProjectRoots)

\* a project search returned a match while a project-tagged root is nested in
\* an engine root
C1_Witness ==
    /\ call.op = "search_code"
    /\ call.scope = "project"
    /\ ret.matches # <<>>
    /\ \E i \in 1..Len(ProjectRoots) :
           Under(ProjectRoots[i], EngineRoots) /\ Under(ret.matches[1].file, <<ProjectRoots[i]>>)

\* C1 as stated: a project search returns no file that lies under an engine root
C1_NoMatchUnderEngineRoot ==
    (call.op = "search_code" /\ call.scope = "project") =>
        \A i \in 1..Len(ret.matches) : ~Under(ret.matches[i].file, EngineRoots)

(***************************************************************************)
(* C2. After any sequence of parse requests the tree cache never holds     *)
(* more entries than the configured maximum cache size                     *)
(* (Config.cache_max_size, ANALYZER_CACHE_MAX_SIZE).                       *)
(***************************************************************************)
C2_TreeCacheWithinConfiguredMaximum ==
    Cardinality(DOMAIN ast_cache) <= cache_max_size

(***************************************************************************)
(* C3. An insertion that evicts a key evicts the surviving key that was    *)
(* inserted earliest, whatever cache hits came in between.                 *)
(***************************************************************************)
C3_EvictsOldestInserted ==
    evicted # NoEviction => evicted.key = evicted.oldest

\* an eviction took a key other than the least recently used one: the hits
\* between the insertions did not protect it
C3_Witness ==
    /\ evicted # NoEviction
    /\ evicted.key = evicted.oldest
    /\ evicted.key # evicted.lru

(***************************************************************************)
(* C4. After any sequence of file visits the class cache never holds more  *)
(* class records than the maximum cache size.                              *)
(***************************************************************************)
C4_ClassCacheWithinMaximum ==
    Cardinality(DOMAIN class_cache) <= _max_cache_size

(***************************************************************************)
(* C5. For a class whose ancestors are all indexed in the scope's roots,   *)
(* find_class_hierarchy returns the tree in which every ancestor appears:  *)
(* each node's children are the recursively built nodes of its             *)
(* superclasses.                                                           *)
(***************************************************************************)
C5_HierarchyHoldsEveryAncestor ==
    (/\ call.op = "find_class_hierarchy"
     /\ Ancestors(IndexOf(call.scope), call.class_name) \subseteq DOMAIN IndexOf(call.scope))
    => ret.value = FullHierarchy(IndexOf(call.scope), call.class_name,
                                 call.include_interfaces)

(***************************************************************************)
(* C6. When an indexed ancestor of the queried class names a superclass    *)
(* that the searched roots do not define, find_class_hierarchy does not    *)
(* raise and its result holds a node for that superclass with no children. *)
(***************************************************************************)
C6_MissingSuperclassIsLeaf ==
    call.op = "find_class_hierarchy" =>
        /\ ret.raised = None
        /\ \A c \in Ancestors(IndexOf(call.scope), call.class_name) :
               c \notin DOMAIN IndexOf(call.scope) /\ c # call.class_name =>
                   \E node \in NodesOf(ret.value) :
                       node.class = c /\ node.superclasses = <<>>

\* the number of distinct tokens of the query that the line holds, ignoring case
DistinctTokensIn(query, line) ==
    Cardinality({t \in Range(SplitWords(strip(query), <<>>)) :
                     Contains(lower(line), lower(t))})

(***************************************************************************)
(* C7. In token mode each match's score is the number of distinct query    *)
(* tokens that occur in its line as case-insensitive substrings, and the   *)
(* returned matches are in non-increasing order of score.                  *)
(***************************************************************************)
C7_ScoreCountsDistinctTokens ==
    (/\ call.op = "search_code"
     /\ "query_mode_resolved" \in DOMAIN ret
     /\ ret.query_mode_resolved = "tokens")
    => /\ \A i \in 1..Len(ret.matches) :
              ret.matches[i].score =
                  DistinctTokensIn(call.query,
                                   Lines(ret.matches[i].file)[ret.matches[i].line])
       /\ \A i, j \in 1..Len(ret.matches) :
              i < j => ret.matches[i].score >= ret.matches[j].score

RECURSIVE TopLevelPieces(_, _, _, _, _)
\* the pieces between the commas that are neither inside a quoted value nor
\* inside parentheses
TopLevelPieces(chars, depth, quoted, current, pieces) ==
    IF chars = <<>> THEN Append(pieces, current)
    ELSE LET char == Head(chars)
         IN IF char = "\""
            THEN TopLevelPieces(Tail(chars), depth, ~quoted, Append(current, char), pieces)
            ELSE IF quoted
            THEN TopLevelPieces(Tail(chars), depth, quoted, Append(current, char), pieces)
            ELSE IF char = "," /\ depth = 0
            THEN TopLevelPieces(Tail(chars), depth, quoted, <<>>, Append(pieces, current))
            ELSE TopLevelPieces(Tail(chars),
                                depth + (IF char = "(" THEN 1 ELSE IF char = ")" THEN -1 ELSE 0),
                                quoted, Append(current, char), pieces)

\* every quoted value of the list is closed
QuotesClosed(chars) == Len(SelectSeq(chars, LAMBDA c : c = "\"")) % 2 = 0

RECURSIVE TrimmedNonEmpty(_)
\* each piece trimmed, the blank ones left out
TrimmedNonEmpty(pieces) ==
    IF pieces = <<>> THEN <<>>
    ELSE (IF strip(Head(pieces)) # <<>> THEN <<strip(Head(pieces))>> ELSE <<>>)
         \o TrimmedNonEmpty(Tail(pieces))

(***************************************************************************)
(* C8. parse_specifiers splits on top-level commas only: a comma inside a  *)
(* quoted value or inside parentheses is not a separator, and the result   *)
(* is the list of the top-level specifiers, each trimmed (for every list    *)
(* whose quoted values are closed).                                        *)
(***************************************************************************)
C8_SplitsOnTopLevelCommasOnly ==
    (call.op = "parse_specifiers" /\ QuotesClosed(call.specifiers_str)) =>
        ret.value = TrimmedNonEmpty(
                        TopLevelPieces(call.specifiers_str, 0, FALSE, <<>>, <<>>))

\* C8 holds of the lists that hold no double quote
C8_HoldsWithoutQuotes ==
    (call.op = "parse_specifiers" /\ "\"" \notin Range(call.specifiers_str)) =>
        ret.value = TrimmedNonEmpty(
                        TopLevelPieces(call.specifiers_str, 0, FALSE, <<>>, <<>>))

\* sub is s with some elements left out
RECURSIVE IsSubsequence(_, _)
IsSubsequence(sub, s) ==
    IF sub = <<>> THEN TRUE
    ELSE IF s = <<>> THEN FALSE
    ELSE IF Head(sub) = Head(s) THEN IsSubsequence(Tail(sub), Tail(s))
    ELSE IsSubsequence(sub, Tail(s))

\* the two lists of the record partition the base types, relative order kept
PartitionsBases(info, bases) ==
    /\ IsSubsequence(info.superclasses, bases)
    /\ IsSubsequence(info.interfaces, bases)
    /\ Len(info.superclasses) + Len(info.interfaces) = Len(bases)
    /\ Range(info.superclasses) \cap Range(info.interfaces) = {}

LeadingI(name) == name # <<>> /\ name[1] = "I"

LeadingIThenUpper(name) == Len(name) >= 2 /\ name[1] = "I" /\ name[2] \in UpperCase

(***************************************************************************)
(* C9. The base-type names of a class record are partitioned into          *)
(* superclasses and interfaces, relative order kept; a name is in          *)
(* interfaces exactly when it has a leading capital I followed by an       *)
(* upper-case letter or ends with Interface (in the unreal_analyzer copy:  *)
(* exactly when it has a leading capital I).                               *)
(***************************************************************************)
C9_BasesPartitionedByHeuristic ==
    /\ call.op = "_extract_class_info" =>
           /\ PartitionsBases(ret.value, call.node.bases)
           /\ \A b \in Range(call.node.bases) :
                  b \in Range(ret.value.interfaces) <=>
                      (LeadingIThenUpper(b) \/ EndsWith(b, Interface))
    /\ call.op = "_extract_class_info (unreal_analyzer)" =>
           /\ PartitionsBases(ret.value, call.node.bases)
           /\ \A b \in Range(call.node.bases) :
                  b \in Range(ret.value.interfaces) <=> LeadingI(b)

\* a record with a superclass that has a leading capital I and an interface
\* that has none
C9_Witness ==
    /\ call.op = "_extract_class_info"
    /\ It \in Range(ret.value.superclasses)
    /\ XInterface \in Range(ret.value.interfaces)
    /\ Len(call.node.bases) = MaxBases

\* C9 as stated: in interfaces exactly when the name has a leading capital I
\* or ends with Interface
C9_InterfaceIffLeadingIOrSuffix ==
    call.op \in {"_extract_class_info", "_extract_class_info (unreal_analyzer)"} =>
        /\ PartitionsBases(ret.value, call.node.bases)
        /\ \A b \in Range(call.node.bases) :
               b \in Range(ret.value.interfaces) <=>
                   (LeadingI(b) \/ EndsWith(b, Interface))

(***************************************************************************)
(* C10. In the aggregator's list every entry marked is_definition carries  *)
(* a match count and line ranges but no excerpt and comes after every      *)
(* entry that is not so marked, and the entries not so marked are in       *)
(* non-increasing order of match count.                                    *)
(***************************************************************************)
C10_DefinitionLastUsageByCount ==
    call.op = "_aggregate_cpp_references" =>
        \A i \in 1..Len(ret.value) :
            LET entry == ret.value[i]
            IN /\ entry.is_definition =>
                      /\ {"match_count", "line_ranges"} \subseteq DOMAIN entry
                      /\ "sample_lines" \notin DOMAIN entry
                      /\ \A j \in 1..Len(ret.value) :
                             ~ret.value[j].is_definition => j < i
               /\ ~entry.is_definition =>
                      \A j \in (i + 1)..Len(ret.value) :
                          ~ret.value[j].is_definition =>
                              entry.match_count >= ret.value[j].match_count

\* the raw matches name the definition file first and the less matched usage
\* file before the more matched one; the list has them in the opposite order
C10_Witness ==
    /\ call.op = "_aggregate_cpp_references"
    /\ call.class_name = AH
    /\ Len(call.matches) = MaxMatches
    /\ call.matches[1].file = HealthH
    /\ call.matches[2].file = OtherH
    /\ Len(ret.value) = 3
    /\ ret.value[1].file = WeaponCpp
    /\ ret.value[1].match_count > ret.value[2].match_count
    /\ ret.value[2].file = OtherH
    /\ ret.value[3].is_definition

(***************************************************************************)
(* Scopes that resolve to no root.                                         *)
(***************************************************************************)
\* the four query entry points
EntryPoints == {"search_code", "find_references", "analyze_class", "find_class_hierarchy"}

\* the last call's scope resolves to an empty root list (queries leave the
\* configuration and the legacy roots as they found them)
NoRoots ==
    /\ call.op \in EntryPoints
    /\ _get_search_paths(call.scope, NoPath) = <<>>

\* the call reported a failure: it raised, or its result carries an error
SurfacedFailure ==
    \/ "raised" \in DOMAIN ret /\ ret.raised # None
    \/ "error" \in DOMAIN ret

\* C11: when the requested scope resolves to an empty root list, each of the
\* four query entry points surfaces a failure (analyze_class for a class the
\* class cache does not hold) and never returns an empty result silently.
C11_EmptyRootsSurfaceFailure ==
    (NoRoots /\ (call.op = "analyze_class" => call.class_name \notin DOMAIN class_cache))
        => SurfacedFailure

ResolvesToRegex ==
    \/ call.query_mode = "regex"
    \/ /\ call.query_mode = "smart"
       /\ \E i \in 1..Len(call.query) : call.query[i] \in regex_meta

\* the query opens a group it never closes: not a valid pattern
Malformed == \E i \in 1..Len(call.query) : call.query[i] = "("

C14_CappedAndFlagged ==
    call.op = "search_code"
        => /\ Len(ret.matches) <= call.max_results
           /\ ret.count <= call.max_results
           /\ scan.capped => ("truncated" \in DOMAIN ret /\ ret.truncated)


(***************************************************************************)
(* The configuration's roots.                                              *)
(***************************************************************************)
\* the kinds of root a scope stands for
KindsOfScope(scope) ==
    CASE scope = "project" -> {PROJECT_SOURCE, PROJECT_PLUGIN}
      [] scope = "engine" -> {ENGINE_SOURCE, ENGINE_PLUGIN}
      [] scope = "plugin" -> {PROJECT_PLUGIN, ENGINE_PLUGIN}
      [] scope = "all" -> SourceTypes

\* the paths of the roots of these kinds, in the order the roots were added
RootsOfKinds(kinds) ==
    LET roots == SelectSeq(source_configs, LAMBDA cfg : cfg.source_type \in kinds)
    IN [i \in 1..Len(roots) |-> roots[i].path]

\* C15: get_source_paths(scope) returns, in insertion order, exactly the roots
\* whose kind belongs to the scope (project: project source and project
\* plugins; engine: engine source and engine plugins; plugin: both plugin
\* kinds; all: every root); a missing scope stands for the default scope.
C15_ScopeSelectsRootsInOrder ==
    call.op = "get_source_paths"
        => ret.value = RootsOfKinds(KindsOfScope(IF call.scope = None
                                                 THEN default_scope ELSE call.scope))

\* the engine scope resolved over a project root and an engine plugin added in
\* that order, and the default scope standing in for a missing one
C15_Witness ==
    /\ call.op = "get_source_paths"
    /\ call.scope = None
    /\ default_scope = "engine"
    /\ Len(source_configs) = 2
    /\ source_configs[1].source_type = PROJECT_SOURCE
    /\ source_configs[2].source_type = ENGINE_PLUGIN
    /\ ret.value = <<source_configs[2].path>>


\* no two roots of the configuration have the same path
DistinctRoots(configs) ==
    \A i, j \in 1..Len(configs) : configs[i].path = configs[j].path => i = j

\* C16: after any sequence of add_source_path calls no two source roots have
\* the same resolved path, and a call whose resolved path is already present
\* changes nothing: the roots keep their order, kind tags and labels.
C16_RootsUniqueByResolvedPath ==
    [][/\ DistinctRoots(source_configs')
       /\ \A i \in 1..Len(source_configs') :
              resolve(source_configs'[i].path) = source_configs'[i].path
       /\ (/\ call'.op = "add_source_path"
           /\ \E i \in 1..Len(source_configs) :
                  source_configs[i].path = resolve(call'.path))
              => /\ source_configs' = source_configs
                 /\ cpp_source_paths' = cpp_source_paths]_vars

\* the project root was added again, spelt differently and with another kind
\* and label, and the root kept its own
C16_Witness ==
    /\ call.op = "add_source_path"
    /\ call.path = <<".", "P">>
    /\ call.source_type = ENGINE_PLUGIN
    /\ call.label = "lyra"
    /\ source_configs = <<SourceConfig(P, PROJECT_SOURCE, "")>>


(***************************************************************************)
(* Interleaved queries on the tree cache.                                  *)
(***************************************************************************)
\* no key occurs twice in the sequence
NoDuplicate(keys) == \A i, j \in 1..Len(keys) : keys[i] = keys[j] => i = j

AllNodes == UNION {Range(Parse(f)) : f \in ExistingFiles}

\* C18: visiting a file produces a class record for every class definition
\* and every struct definition that has a body, and a forward declaration (a
\* node without body) never creates a record: a name that no file defines
\* with a body has none.
C18_RecordForEveryDefinitionWithBody ==
    /\ (call.op = "_parse_file" /\ ~ret.raised)
           => \A i \in 1..Len(Parse(call.file_path)) :
                  Parse(call.file_path)[i].class_body
                      => Parse(call.file_path)[i].class_name \in DOMAIN class_cache
    /\ \A node \in AllNodes :
           (\A other \in AllNodes :
                other.class_name = node.class_name => ~other.class_body)
               => node.class_name \notin DOMAIN class_cache


(***************************************************************************)
(* The flags of an annotation match.                                       *)
(***************************************************************************)
\* the specifier's name is word: before any "=" the specifier holds the word
\* and, around it, blanks only
IsNamed(specifier, word) ==
    \E n \in 0..Len(specifier) :
        /\ n = Len(specifier) \/ specifier[n + 1] = "="
        /\ \A i \in 1..n : specifier[i] # "="
        /\ \E i \in 1..n :
               /\ specifier[i] = word
               /\ \A j \in (1..n) \ {i} : specifier[j] = " "

\* one of the specifiers has its name in the vocabulary
NamesMeet(specifiers, vocabulary) ==
    \E i \in 1..Len(specifiers) : \E name \in vocabulary :
        IsNamed(specifiers[i], name[1])

\* C19: for every annotation match the exposed flag is true exactly when a
\* specifier's name (its text before any "=") is in the exposure vocabulary,
\* and the replicated flag exactly when one is in the replication vocabulary.
C19_FlagsFollowSpecifierNames ==
    call.op = "detect_ue_pattern"
        => /\ ret.is_blueprint_exposed <=> NamesMeet(ret.specifiers, BLUEPRINT_SPECIFIERS)
           /\ ret.is_replicated <=> NamesMeet(ret.specifiers, REPLICATION_SPECIFIERS)

\* a match whose one specifier is ReplicatedUsing with a value: the name before
\* the "=" sets the replicated flag, and nothing sets the exposed flag
C19_Witness ==
    /\ call.op = "detect_ue_pattern"
    /\ ret.specifiers = << <<"ReplicatedUsing", "=", "Category">> >>
    /\ ret.is_replicated
    /\ ~ret.is_blueprint_exposed


(***************************************************************************)
(* The UCLASS macro above a class.                                         *)
(***************************************************************************)
\* line l (counted from 1) of the call's content is a call of the macro UCLASS
IsUClassMacro(l) == \E i \in 1..Len(call.lines[l]) : call.lines[l][i] = "UCLASS"

\* the lines of the window above a class on line L: max(1, L - 10) to L - 1
WindowAbove(L) == {l \in 1..(L - 1) : l >= L - 10}

\* the specifier names between the parentheses of a macro line
MacroSpecifiers(line) ==
    SelectSeq(line, LAMBDA t : t \notin {"UCLASS", "(", ")", ",", " "})

\* C20: for a class defined at line L, the class record's UCLASS flag is set
\* exactly when one of the up to 10 lines directly above L (lines max(1, L-10)
\* to L-1, the first line of the file included) holds the UCLASS macro, and the
\* captured specifier list is that of the nearest such line.
C20_UClassWithinTenLinesAbove ==
    call.op = "_find_uclass_for_node"
        => LET L == call.line_num + 1
               macros == {l \in WindowAbove(L) : IsUClassMacro(l)}
           IN /\ ret.is_uclass <=> macros # {}
              /\ macros # {}
                     => \E l \in macros :
                            /\ \A other \in macros : other <= l
                            /\ ret.uclass_specifiers =
                                   [i \in 1..Len(MacroSpecifiers(call.lines[l])) |->
                                       <<MacroSpecifiers(call.lines[l])[i]>>]


(***************************************************************************)
(* The UPROPERTY macro of a property.                                      *)
(***************************************************************************)
\* line l (counted from 1) of the call's content holds a complete call of the
\* macro UPROPERTY
IsUPropertyCall(l) == SearchMacroCall("UPROPERTY", call.lines[l]).matched

\* the specifiers written in the UPROPERTY call of a line
UPropertySpecifiers(line) ==
    LET names == SelectSeq(line, LAMBDA t : t \in {"EditAnywhere", "Replicated",
                                                   "BlueprintReadOnly"})
    IN [i \in 1..Len(names) |-> <<names[i]>>]

\* C21: a property record at line L is flagged as a UPROPERTY, with that
\* macro's specifiers, exactly when a UPROPERTY call is on line L or on line
\* L-1; a macro two or more lines above the property never flags it.
C21_FlaggedByMacroOnLineOrLineBefore ==
    call.op = "_extract_property_info"
        => LET L == ret.line
               near == {l \in {L - 1, L} : l >= 1 /\ IsUPropertyCall(l)}
           IN /\ ret.is_uproperty <=> near # {}
              /\ ret.is_uproperty
                     => \E l \in near :
                            ret.uproperty_specifiers = UPropertySpecifiers(call.lines[l])


(***************************************************************************)
(* The line ranges of an aggregated file.                                  *)
(***************************************************************************)
\* the lines of the call's matches in a file
MatchLines(file) ==
    {call.matches[i].line : i \in {j \in 1..Len(call.matches) : call.matches[j].file = file}}

\* the range <<start, end>> that a formatted range stands for
RangeOf(text) ==
    LET all == {m.line : m \in RawMatches}
    IN CHOOSE r \in all \X all :
           /\ r[1] <= r[2]
           /\ text = IF r[1] # r[2] THEN str(r[1]) \o <<"-">> \o str(r[2]) ELSE str(r[1])

\* two lines of a file lie in one of its ranges
InOneRange(ranges, a, b) ==
    \E i \in 1..Len(ranges) :
        /\ ranges[i][1] <= a /\ a <= ranges[i][2]
        /\ ranges[i][1] <= b /\ b <= ranges[i][2]

\* C22: for each file, the aggregator's line ranges are in ascending order,
\* pairwise disjoint, and cover exactly the match lines (every match line lies
\* in a range, every range starts and ends at a match line); two match lines
\* adjacent in sorted order fall in the same range exactly when they differ by
\* at most 3.
C22_RangesAscendingDisjointCovering ==
    call.op = "_aggregate_cpp_references"
        => \A k \in 1..Len(ret.value) :
               LET entry == ret.value[k]
                   lines == MatchLines(entry.file)
                   ranges == [i \in 1..Len(entry.line_ranges) |->
                                 RangeOf(entry.line_ranges[i])]
               IN /\ \A i \in 1..Len(ranges) :
                         /\ FormatRanges(ranges)[i] = entry.line_ranges[i]
                         /\ ranges[i][1] <= ranges[i][2]
                         /\ ranges[i][1] \in lines /\ ranges[i][2] \in lines
                         /\ \A j \in (i + 1)..Len(ranges) : ranges[i][2] < ranges[j][1]
                  /\ \A a \in lines : InOneRange(ranges, a, a)
                  /\ \A a, b \in lines :
                         (a < b /\ ~\E c \in lines : a < c /\ c < b)
                             => (InOneRange(ranges, a, b) <=> b - a <= 3)

\* matches of one file given out of order: lines 1 and 4 share a range and
\* line 8 has its own
C22_Witness ==
    /\ call.op = "_aggregate_cpp_references"
    /\ call.matches = <<RawMatch(WeaponCpp, 8), RawMatch(WeaponCpp, 1),
                        RawMatch(WeaponCpp, 4)>>
    /\ Len(ret.value) = 1
    /\ ret.value[1].line_ranges = << <<"1", "-", "4">>, <<"8">> >>


(***************************************************************************)
(* The definition file of the searched class.                              *)
(***************************************************************************)
\* the stem is the identifier, or the identifier without one leading framework
\* prefix character
StemNamesClass(file, class_name) ==
    \/ PathStem(file) = class_name
    \/ /\ class_name # <<>>
       /\ class_name[1] \in FrameworkPrefixes
       /\ PathStem(file) = Tail(class_name)

\* C23: the aggregator classifies a file as the definition file when its
\* filename stem equals the identifier or the identifier with one leading
\* framework-prefix character stripped, and classifies no other file so (a file
\* whose stem merely ends with the stripped identifier is a usage site).
C23_DefinitionFileIffStemNamesClass ==
    call.op = "_aggregate_cpp_references"
        => \A k \in 1..Len(ret.value) :
               ret.value[k].is_definition
                   <=> StemNamesClass(ret.value[k].file, call.class_name)


(***************************************************************************)
(* The recursion of find_class_hierarchy on a cyclic superclass relation.  *)
(***************************************************************************)
\* the superclasses of a class's record
BasesOf(c) ==
    IF c \in DOMAIN class_cache THEN Range(class_cache[c].superclasses) ELSE {}

RECURSIVE ReachIn(_, _)
\* the classes reached from the classes of from in at most n steps
ReachIn(from, n) ==
    IF n = 0 THEN from
    ELSE ReachIn(from \cup UNION {BasesOf(c) : c \in from}, n - 1)

\* the proper ancestors of a class
AncestorsOf(c) == ReachIn(BasesOf(c), Cardinality(DOMAIN class_cache))

\* the superclass relation reachable from a class has a cycle
Cyclic(c) == \E d \in {c} \cup AncestorsOf(c) : d \in AncestorsOf(d)

\* the last hierarchy query has returned to its caller
Returned == call.op = "find_class_hierarchy" /\ frames = <<>>

\* C24 (as stated): find_class_hierarchy has no visited-name guard: it
\* terminates exactly when the superclass relation reachable from the queried
\* class is acyclic, and recurses without bound when a base class resolves
\* back to one of its ancestors.
C24_TerminatesIffAcyclic == Returned => ~Cyclic(call.class_name)

RECURSIVE Power(_, _)
Power(b, n) == IF n = 0 THEN 1 ELSE b * Power(b, n - 1)

\* the most steps of one query: at most MaxBases^RecursionLimit calls, each of
\* which looks its class up, visits each base and returns
StepsAtMost == (MaxBases + 2) * Power(MaxBases, RecursionLimit)

\* C24 (amended): find_class_hierarchy has no visited-name guard, and on a
\* cyclic superclass relation it calls itself again for a class already in
\* flight; the recursion is still bounded, by the interpreter's recursion
\* limit, whose RecursionError the calling frame's "except Exception" catches:
\* every call returns a hierarchy after a bounded number of steps (a call in
\* flight can always take its next step), and a call is refused only when the
\* relation has a cycle.
C24_CycleEndsAtRecursionLimit ==
    /\ [](Len(frames) <= RecursionLimit)
    /\ [](call.op = "find_class_hierarchy" => call.steps <= StepsAtMost)
    /\ [](frames # <<>> => /\ Callee.phase \in {"analyze", "loop"}
                           /\ Len(Callee.todo) <= MaxBases)
    /\ [](Returned => ret.raised = None)
    /\ [][HierarchyRecursionError => Cyclic(call.class_name)]_vars

\* the query for a class that is its own ancestor has returned a hierarchy
C24_Witness ==
    /\ Returned
    /\ call.class_name = UC
    /\ UC \in AncestorsOf(UC)
    /\ ret.raised = None
    /\ ret.value.class = UC


(***************************************************************************)
(* A file that cannot be read, in a walk over several files.               *)
(***************************************************************************)
\* the files a walk for the call's scope comes to, in order
WalkedFiles == WalkOrder(_get_search_paths(call.scope, NoPath))

\* an unreadable file comes first in the walk, and readable ones after it
FailsFirst ==
    /\ WalkedFiles # <<>>
    /\ Head(WalkedFiles) \in Unreadable
    /\ \E i \in 2..Len(WalkedFiles) : WalkedFiles[i] \notin Unreadable

\* C25: during a multi-file walk (search_code, analyze_class), a read or parse
\* failure on one file skips that file only: the walk goes on to every
\* remaining file and the result holds all matches or records from the files
\* that could be read.
C25_FailureSkipsThatFileOnly ==
    /\ call.op = "search_code"
           => \A i \in 1..Len(WalkedFiles) :
                  LET f == WalkedFiles[i]
                  IN f \notin Unreadable
                         => /\ \E j \in 1..Len(scan.files) : scan.files[j] = f
                            /\ \A l \in 1..Len(Lines(f)) :
                                   Contains(Lines(f)[l], call.query)
                                       => \E m \in 1..Len(ret.matches) :
                                              /\ ret.matches[m].file = f
                                              /\ ret.matches[m].line = l
    /\ call.op = "analyze_class"
           => LET defined == \E i \in 1..Len(WalkedFiles) :
                                 /\ WalkedFiles[i] \notin Unreadable
                                 /\ \E n \in Range(Parse(WalkedFiles[i])) :
                                        /\ n.type = "class_specifier"
                                        /\ n.class_body
                                        /\ n.class_name = call.class_name
              IN defined => ret.raised = None /\ ret.value.name = call.class_name

\* the walk met the unreadable file first; the search still returned the match
\* of the file after it
C25_Witness ==
    /\ call.op = "search_code"
    /\ call.scope = None
    /\ FailsFirst
    /\ Len(ret.matches) = 1
    /\ ret.matches[1].file = <<"K", "k.h">>


(***************************************************************************)
(* A member whose extraction fails.                                        *)
(***************************************************************************)
\* the well-formed children of a class body
WellFormed(children) == SelectSeq(children, LAMBDA c : ~c.raises)

C27_NoChunkBeforeDone ==
    client.pc # "idle"
        => /\ client.chunk_requests > 0 => client.envelope /\ client.done_seen
           /\ client.pc = "fetch" => client.done_seen
           /\ (client.pc = "raised" /\ client.why \in {"job failed", "timeout"})
                  => client.chunk_requests = 0 /\ ~client.done_seen
           /\ client.pc = "sleep" => client.clock <= client.timeout_s
           /\ client.pc \in {"poll", "sleep"} => ~client.done_seen

\* the job was running at the first poll and done at the second, and the
\* result came in two chunks
C27_Witness ==
    /\ client.pc = "returned"
    /\ client.envelope
    /\ client.polls = 2
    /\ client.done_seen
    /\ client.chunk_requests = 2


(***************************************************************************)
(* The scope of a class lookup and the class cache.                        *)
(***************************************************************************)
\* analyze_class has returned a record
ReturnedRecord == call.op = "analyze_class" /\ ret.raised = None

\* C28: after any sequence of earlier queries, the record returned by
\* analyze_class(name, scope=S), or with an explicit path P, has its defining
\* file under one of the roots that S resolves to, or under P: a record
\* cached by a query in another scope is not returned.
C28_RecordUnderRootsOfScope ==
    ReturnedRecord
        => Under(ret.value.file, _get_search_paths(call.scope, call.source_path))


(***************************************************************************)
(* The roots search_code walks and the roots of its safety filter.         *)
(***************************************************************************)
\* search_code has walked its roots and returned what the filter kept
Searched == call.op = "search_code" /\ scan # NoScan

\* C29: in search_code the roots of the safety filter are the roots that were
\* walked, for every scope argument (None, a scope name, an unrecognized
\* string) and also when the legacy paths supply the roots: a match found
\* under a walked root is never removed by the filter.
C29_FilterKeepsMatchesOfWalkedRoots ==
    Searched => ret.count = scan.collected


(***************************************************************************)
(* The FIFO queue and the keys of the tree cache.                          *)
(***************************************************************************)
\* C30: after any sequence of sequential parse requests, the FIFO queue lists
\* exactly the keys currently held in the tree cache, each key once, in the
\* order they were inserted.
C30_QueueListsCachedKeysInInsertionOrder ==
    /\ Range(cache_queue) = DOMAIN ast_cache
    /\ NoDuplicate(cache_queue)
    /\ cache_queue = order

\* a parse has evicted a tree, a later request hit the cache, and the queue is full
C30_Witness ==
    /\ evicted # NoEviction
    /\ Len(cache_queue) = _max_cache_size
    /\ access # order
    /\ evicted.key \notin Range(cache_queue)


====
